---- MODULE Spec2Model ----
(***************************************************************************)
(* MarketInsight: the rate-limited S&P 500 collection pipeline.            *)
(*                                                                         *)
(*   insights/models.py                               the record store     *)
(*   insights/management/commands/sp500_worker.py     the worker           *)
(*   insights/management/commands/collect_sp500_data.py  the collect cmd   *)
(*                                                                         *)
(* Spec     the store, the gate, selection, the per-company fetch/merge/   *)
(*          save of both commands, operator interrupts. The clock has the  *)
(*          resolution of one calendar day.                                *)
(* SpecPace the pacing of both commands: the same loops against a clock in *)
(*          ticks of 0.2 s, records left out.                              *)
(*                                                                         *)
(* Units: prices and absolute changes are whole currency units, percentage *)
(* fields are in 1/10000 (the four decimal places DecimalField stores).    *)
(* A nullable number is NULL or Num(n).                                    *)
(***************************************************************************)
EXTENDS Integers, Sequences, FiniteSets, Bags, TLC

(* ------------------------------ bounds -------------------------------- *)
\* environment events in one behaviour of Spec: command starts, midnights,
\* remote calls and saves that fail, operator interrupts
MaxEvents == 4

(* --------------------------- reference data --------------------------- *)
\* the symbols of SP500Company, in the ascending order order_by('symbol') gives
SymbolOrder == <<"A", "B">>
Symbols == {SymbolOrder[n] : n \in 1..Len(SymbolOrder)}
\* first calendar day of a behaviour (days are counted from an epoch)
StartDay == 400

\* None / SQL NULL, and a present value
NULL == <<>>
Some(x) == <<x>>
Num(n) == <<n>>
NoSymbol == "-"
NoLimit == NULL

(* ------------------------------ the store ----------------------------- *)
\* CompanyMetrics as get_or_create(defaults={}) inserts it: every nullable
\* field NULL, sector blank, last_updated = now (auto_now)
EmptyRow(company, d, ts) ==
    [company |-> company, date |-> d,
     open_price |-> NULL, high_price |-> NULL, low_price |-> NULL,
     close_price |-> NULL,
     daily_change |-> NULL, daily_change_percent |-> NULL,
     monthly_change |-> NULL, monthly_change_percent |-> NULL,
     yearly_change |-> NULL, yearly_change_percent |-> NULL,
     sector |-> "",
     market_cap |-> NULL, pe_ratio |-> NULL, price_to_book |-> NULL,
     dividend_yield |-> NULL,
     ma_20 |-> NULL, ma_50 |-> NULL, ma_100 |-> NULL, ma_200 |-> NULL,
     last_updated |-> ts]

\* objects.filter(company=..., date=...): the rows of a table (a bag of rows)
RowsFor(table, company, d) ==
    {r \in BagToSet(table) : r.company = company /\ r.date = d}

\* number of rows stored for (company, date)
RowCount(table, company, d) ==
    LET rows == RowsFor(table, company, d)
    IN  BagCardinality([r \in rows |-> table[r]])

\* last_updated.date() == date.today()
is_updated_today(row, today) == row.last_updated = today

\* a gate that also wants a close price on the record
needs_update_today_priced(table, symbol, today) ==
    LET rows == RowsFor(table, symbol, today)
    IN  \/ rows = {}
        \/ \E r \in rows : ~is_updated_today(r, today) \/ r.close_price = NULL

\* CompanyMetrics.needs_update_today: latest('last_updated') of the rows for
\* (symbol, today), DoesNotExist -> True
needs_update_today(table, symbol, today) ==
    LET rows == RowsFor(table, symbol, today)
    IN  IF rows = {} THEN TRUE
        ELSE LET latest == CHOOSE r \in rows :
                               \A o \in rows : o.last_updated <= r.last_updated
             IN  ~is_updated_today(latest, today)

(* ------------------------ the remote API (inputs) --------------------- *)
\* What the remote holds for each symbol. A call returns the body, or fails
\* (timeout, network error, non-2xx status); that choice is made per call.

\* /stock/profile2: the finnhubIndustry of the body, '' when the key is absent
RemoteSector(symbol) == IF symbol = "A" THEN "Technology" ELSE ""

\* /quote: current, high, low, open, previous close
RemoteQuote(symbol) ==
    IF symbol = "A"
    THEN [c |-> 190, h |-> 192, l |-> 184, o |-> 186, pc |-> 185]
    ELSE [c |-> 45, h |-> 50, l |-> 44, o |-> 50, pc |-> 0]

\* /stock/metric. marketCapitalization is in millions; the model writes the
\* number in units of 1e-7 million (a tenth of a currency unit), so that
\* int(x * 1_000_000) is n \div 10 and the truncation is visible
RemoteMetric(symbol) ==
    IF symbol = "A"
    THEN [metric |-> [marketCapitalization |-> Num(25000007),
                      peBasicExclExtraTTM |-> Num(28),
                      pbAnnual |-> Num(7),
                      dividendYieldIndicatedAnnual |-> Num(1)]]
    ELSE [metric |-> [marketCapitalization |-> NULL,
                      peBasicExclExtraTTM |-> Num(0)]]

\* /indicator: per period the sma series of the body
Periods == <<20, 50, 100, 200>>
PeriodSet == {Periods[n] : n \in 1..Len(Periods)}
RemoteIndicator(symbol) ==
    IF symbol = "A"
    THEN [p \in PeriodSet |-> <<p + 99, p + 100>>]
    ELSE [p \in PeriodSet |-> IF p = 50 THEN <<>> ELSE <<p + 100>>]

\* the sets of periods whose indicator call fails, for one company
IndicatorOutages == {{}, {20}, PeriodSet}

\* the outcomes of one call: NULL when it fails, Some(body) otherwise
Outcomes(body) == {NULL, Some(body)}

(* ----------------------------- arithmetic ----------------------------- *)
\* Python truthiness of a nullable number: None and 0 are false
Truthy(x) == x # NULL /\ x[1] # 0

\* n / d rounded half-even to an integer (d > 0): Decimal.quantize
RoundHalfEven(n, d) ==
    LET q == n \div d
        r == n % d
    IN  IF 2 * r < d THEN q
        ELSE IF 2 * r > d THEN q + 1
        ELSE IF q % 2 = 0 THEN q ELSE q + 1

\* (change / base) * 100 as stored with four decimal places, in 1/10000
Percent(change, base) ==
    IF base > 0 THEN RoundHalfEven(change * 1000000, base)
    ELSE 0 - RoundHalfEven(change * 1000000, 0 - base)

(* ------------------------- worker: field merges ----------------------- *)
\* the difference taken the other way round
DailyChange_reversed(close_price, previous_close) == previous_close - close_price

\* update_price_data: metrics.close_price - previous_close
DailyChange(close_price, previous_close) == close_price - previous_close

\* Command.update_price_data
update_price_data(m, q) ==
    LET m1 == IF "c" \in DOMAIN q THEN [m EXCEPT !.close_price = Num(q.c)] ELSE m
        m2 == IF "h" \in DOMAIN q THEN [m1 EXCEPT !.high_price = Num(q.h)] ELSE m1
        m3 == IF "l" \in DOMAIN q THEN [m2 EXCEPT !.low_price = Num(q.l)] ELSE m2
        m4 == IF "o" \in DOMAIN q THEN [m3 EXCEPT !.open_price = Num(q.o)] ELSE m3
    IN  IF "pc" \in DOMAIN q /\ Truthy(m4.close_price)
        THEN LET change == DailyChange(m4.close_price[1], q.pc)
                 m5 == [m4 EXCEPT !.daily_change = Num(change)]
             IN  IF q.pc # 0
                 THEN [m5 EXCEPT !.daily_change_percent = Num(Percent(change, q.pc))]
                 ELSE m5
        ELSE m4

\* key present with a truthy value
HasValue(metric, key) == key \in DOMAIN metric /\ Truthy(metric[key])

\* Command.update_financial_metrics
update_financial_metrics(m, f) ==
    IF "metric" \notin DOMAIN f THEN m
    ELSE
    LET metric == f.metric
        m1 == IF HasValue(metric, "marketCapitalization")
              THEN [m EXCEPT !.market_cap = Num(metric.marketCapitalization[1] \div 10)]
              ELSE m
        m2 == IF HasValue(metric, "peBasicExclExtraTTM")
              THEN [m1 EXCEPT !.pe_ratio = metric.peBasicExclExtraTTM]
              ELSE m1
        m3 == IF HasValue(metric, "pbAnnual")
              THEN [m2 EXCEPT !.price_to_book = metric.pbAnnual]
              ELSE m2
    IN  IF HasValue(metric, "dividendYieldIndicatedAnnual")
        THEN [m3 EXCEPT !.dividend_yield = metric.dividendYieldIndicatedAnnual]
        ELSE m3

\* company.metrics.filter(date__lte=cutoff, close_price__isnull=False)
\*                .order_by('-date').first(): a set with at most one row
LookbackRow(table, company, cutoff) ==
    LET rows == {r \in BagToSet(table) :
                    r.company = company /\ r.date <= cutoff /\ r.close_price # NULL}
    IN  {r \in rows : \A o \in rows : o.date <= r.date}

\* a calculation that clears the derived fields instead of returning early
calculate_price_changes_clearing(m, table, today) ==
    [m EXCEPT !.monthly_change = NULL, !.monthly_change_percent = NULL,
              !.yearly_change = NULL, !.yearly_change_percent = NULL]

\* Command.calculate_price_changes
calculate_price_changes(m, table, today) ==
    IF ~Truthy(m.close_price) THEN m
    ELSE
    LET monthly == LookbackRow(table, m.company, today - 30)
        yearly == LookbackRow(table, m.company, today - 365)
        m1 == IF monthly # {} /\ Truthy((CHOOSE r \in monthly : TRUE).close_price)
              THEN LET base == (CHOOSE r \in monthly : TRUE).close_price[1]
                       change == m.close_price[1] - base
                   IN  [m EXCEPT !.monthly_change = Num(change),
                                 !.monthly_change_percent = Num(Percent(change, base))]
              ELSE m
    IN  IF yearly # {} /\ Truthy((CHOOSE r \in yearly : TRUE).close_price)
        THEN LET base == (CHOOSE r \in yearly : TRUE).close_price[1]
                 change == m1.close_price[1] - base
             IN  [m1 EXCEPT !.yearly_change = Num(change),
                            !.yearly_change_percent = Num(Percent(change, base))]
        ELSE m1

(* ------------------------ collect: field merges ----------------------- *)
\* collect_sp500_data.fetch_company_data, "Update quote data": previous_close
\* is no field of CompanyMetrics, so the 'pc' assignment is not stored
CollectApplyQuote(m, q) ==
    LET m1 == IF "c" \in DOMAIN q THEN [m EXCEPT !.close_price = Num(q.c)] ELSE m
        m2 == IF "h" \in DOMAIN q THEN [m1 EXCEPT !.high_price = Num(q.h)] ELSE m1
        m3 == IF "l" \in DOMAIN q THEN [m2 EXCEPT !.low_price = Num(q.l)] ELSE m2
    IN  IF "o" \in DOMAIN q THEN [m3 EXCEPT !.open_price = Num(q.o)] ELSE m3

\* int(None * 1000000) raises TypeError: the key is tested, its value is not
CollectMetricsRaise(f) ==
    /\ "metric" \in DOMAIN f
    /\ "marketCapitalization" \in DOMAIN f.metric
    /\ f.metric.marketCapitalization = NULL

\* fetch_company_data, "Update metrics data" (when it does not raise)
CollectApplyMetrics(m, f) ==
    IF "metric" \notin DOMAIN f THEN m
    ELSE
    LET metric == f.metric
        m1 == IF "marketCapitalization" \in DOMAIN metric
              THEN [m EXCEPT !.market_cap = Num(metric.marketCapitalization[1] \div 10)]
              ELSE m
        m2 == IF "peBasicExclExtraTTM" \in DOMAIN metric
              THEN [m1 EXCEPT !.pe_ratio = metric.peBasicExclExtraTTM]
              ELSE m1
        m3 == IF "pbAnnual" \in DOMAIN metric
              THEN [m2 EXCEPT !.price_to_book = metric.pbAnnual]
              ELSE m2
    IN  IF "dividendYieldIndicatedAnnual" \in DOMAIN metric
        THEN [m3 EXCEPT !.dividend_yield = metric.dividendYieldIndicatedAnnual]
        ELSE m3

\* the series each call delivered: none from a call that failed
Sma(responses) ==
    [p \in DOMAIN responses |-> IF responses[p] = NULL THEN <<>> ELSE responses[p][1]]

\* tech_data['sma'][-1]
LatestMA(series) == Num(series[Len(series)])

\* the loop over the periods, were it left at the first call that fails
CollectApplyIndicators_aborting(m, ind) ==
    [m EXCEPT !.ma_20 = IF ind[20] # <<>> THEN LatestMA(ind[20]) ELSE @,
              !.ma_50 = IF ind[20] # <<>> /\ ind[50] # <<>>
                        THEN LatestMA(ind[50]) ELSE @,
              !.ma_100 = IF ind[20] # <<>> /\ ind[50] # <<>> /\ ind[100] # <<>>
                         THEN LatestMA(ind[100]) ELSE @,
              !.ma_200 = IF ind[20] # <<>> /\ ind[50] # <<>> /\ ind[100] # <<>>
                            /\ ind[200] # <<>>
                         THEN LatestMA(ind[200]) ELSE @]

\* fetch_company_data, the loop over the four periods: ind[p] is the series
\* the call for p delivered, empty when it delivered none
CollectApplyIndicators(m, ind) ==
    [m EXCEPT !.ma_20 = IF ind[20] # <<>> THEN LatestMA(ind[20]) ELSE @,
              !.ma_50 = IF ind[50] # <<>> THEN LatestMA(ind[50]) ELSE @,
              !.ma_100 = IF ind[100] # <<>> THEN LatestMA(ind[100]) ELSE @,
              !.ma_200 = IF ind[200] # <<>> THEN LatestMA(ind[200]) ELSE @]

(* --------------------------- store operations ------------------------- *)
\* a create that does not look for the row first
get_or_create_blind(table, company, d, ts) ==
    [table |-> table (+) SetToBag({EmptyRow(company, d, ts)}),
     obj |-> EmptyRow(company, d, ts)]

\* objects.get_or_create(company=, date=, defaults={}): the table after the
\* call and the object returned
get_or_create(table, company, d, ts) ==
    LET rows == RowsFor(table, company, d)
    IN  IF rows # {}
        THEN [table |-> table, obj |-> CHOOSE r \in rows : TRUE]
        ELSE [table |-> table (+) SetToBag({EmptyRow(company, d, ts)}),
              obj |-> EmptyRow(company, d, ts)]

\* a save that replaces every row of the company
save_company(table, obj, ts) ==
    LET others == {r \in BagToSet(table) : r.company # obj.company}
    IN  [r \in others |-> CopiesIn(r, table)] (+) SetToBag({[obj EXCEPT !.last_updated = ts]})

\* obj.save(): the stored row of the object is replaced, last_updated = now
save(table, obj, ts) ==
    LET rows == RowsFor(table, obj.company, obj.date)
        new == SetToBag({[obj EXCEPT !.last_updated = ts]})
    IN  IF rows = {} THEN table (+) new
        ELSE (table (-) SetToBag({CHOOSE r \in rows : TRUE})) (+) new

\* no transaction: every statement commits at once
atomic_autocommit(table) == NULL

\* transaction.atomic(): the connection works on its own copy of the table
\* until the block commits
atomic(table) == Some(table)

(* ------------------------------ selection ----------------------------- *)
\* SP500Company.objects.filter(is_active=True).order_by('symbol')
ActiveCompanies_all(active) == SymbolOrder

ActiveCompanies(active) == SelectSeq(SymbolOrder, LAMBDA s : active[s])

\* companies[:max_companies], applied when max_companies is truthy
Cap(seq, max_companies) ==
    IF Truthy(max_companies)
    THEN SubSeq(seq, 1, IF max_companies[1] < Len(seq) THEN max_companies[1] ELSE Len(seq))
    ELSE seq

\* a gate that does not look at force
Gate_unforced(force, table, symbol, today) ==
    needs_update_today(table, symbol, today)

\* does the run pass the company through the gate
Gate(force, table, symbol, today) ==
    force \/ needs_update_today(table, symbol, today)

\* a selection of the worker that does not ask the gate
get_companies_to_update_ungated(active, table, today, force_update, max_companies) ==
    Cap(ActiveCompanies(active), max_companies)

\* sp500_worker.Command.get_companies_to_update
get_companies_to_update(active, table, today, force_update, max_companies) ==
    Cap(SelectSeq(ActiveCompanies(active),
               LAMBDA s : Gate(force_update, table, s, today)),
        max_companies)

\* collect_sp500_data.Command.handle, "Get companies to update"
CollectCompanies(active, specific_symbol) ==
    IF specific_symbol # "" /\ specific_symbol # NoSymbol
    THEN SelectSeq(ActiveCompanies(active), LAMBDA s : s = specific_symbol)
    ELSE ActiveCompanies(active)

\* a selection that does not ask the gate
CollectToUpdate_ungated(active, table, today, force_update, specific_symbol) ==
    CollectCompanies(active, specific_symbol)

\* collect_sp500_data.Command.handle, "Filter companies that need updates"
CollectToUpdate(active, table, today, force_update, specific_symbol) ==
    SelectSeq(CollectCompanies(active, specific_symbol),
           LAMBDA s : Gate(force_update, table, s, today))

(* ------------------------------- state -------------------------------- *)
VARIABLES
    now,                  \* the calendar day of the clock: date.today()
    is_active,            \* SP500Company: symbol -> is_active
    db,                   \* CompanyMetrics, committed rows (a bag)
    txn,                  \* NULL, or Some(table) the open transaction works on
    events,               \* environment events so far (see MaxEvents)
    cmd,                  \* "idle", "worker" or "collect"
    opt,                  \* the options and settings of the run
    companies_to_update,  \* the selected companies (symbols), in order
    i,                    \* worker: index of the batch start; collect: index
    k,                    \* worker: position inside the batch
    pc,                   \* where the run stands
    metrics,              \* the CompanyMetrics object in memory, or NULL
    quote_data,           \* the quote response of the current company
    financials,           \* the fundamentals response of the current company
    outcome,              \* how the fetch of the current company ended: "" (not
                          \*   yet), "saved", "save_raised", "request_failed",
                          \*   "unexpected"
    counts,               \* processed / successful / failed
    tally,                \* NULL, or Some(counts) the final line printed
    fetched,              \* history: companies of the run a remote call was
                          \*   issued for, in order
    interrupted,          \* history: an interrupt was delivered to the run
                          \*   while a company was being processed
    pre_db,               \* history: db when the current company was started
    raised,               \* history: exceptions of the run that made a company fail
                          \*   or that "except Exception" of handle caught
    \* the pacing (SpecPace); times are in ticks of 0.2 s
    clock,                \* time.time()
    total_companies,      \* len(companies) of the run
    delay,                \* worker: --delay
    batch_start_time,     \* worker: when the current batch started
    start_time,           \* collect: when the current window started
    calls,                \* history: the times of the recent remote calls
    window_i,             \* history: collect, the index the window started at
    \* the scheduler (SpecSched); the day is divided into Watches
    time_of_day,          \* datetime.now().time(), the watch of the day
    collection_run_today, \* run_daily: the flag of the polling loop
    last_check_date,      \* run_daily: the date of the last poll
    triggers,             \* history: the collections the scheduler started
    last_run,             \* history: NULL, or how the last collection returned
    due,                  \* history: the dates a poll of the loop found the
                          \*   time at or after the target time
    \* two runs at the same time (SpecPair)
    runs,                 \* run -> its command, position, selection and the
                          \*   companies it has fetched and written
    \* one update over drawn responses (SpecCalc)
    tech_data             \* NULL, or period -> the outcome of the indicator call

\* the variables of Spec, and those only SpecPace moves
dataVars == <<now, is_active, db, txn, companies_to_update, metrics, quote_data,
              financials, outcome, counts, tally, fetched, pre_db, raised>>
paceVars == <<clock, total_companies, delay, batch_start_time, start_time, calls,
              window_i>>

schedVars == <<time_of_day, collection_run_today, last_check_date, triggers,
               last_run, due>>

vars == <<now, is_active, db, txn, events, cmd, opt, companies_to_update, i, k, pc,
          metrics, quote_data, financials, outcome, counts, tally, fetched,
          interrupted, pre_db, raised, paceVars, schedVars, runs, tech_data>>

\* the two runs of SpecPair
Runs == {1, 2}

\* a run that has not started
NoRun == [cmd |-> "idle", pc |-> "idle", companies_to_update |-> <<>>, i |-> 0,
          written |-> <<>>]

\* no scheduler is running, and no pair of runs
SchedRest ==
    /\ runs = [r \in Runs |-> NoRun]
    /\ tech_data = NULL
    /\ time_of_day = 0
    /\ collection_run_today = FALSE
    /\ last_check_date = 0
    /\ triggers = <<>>
    /\ last_run = NULL
    /\ due = {}

\* the table the connection of the run reads and writes
View == IF txn = NULL THEN db ELSE txn[1]

\* a stored row of an earlier day with a close, for the lookbacks
HistoryRow(company, d, close) ==
    [EmptyRow(company, d, d) EXCEPT !.close_price = Num(close)]

\* the table a behaviour starts from: for B a row for today that was last
\* written the day before (so B has a stale record, A has none), and for A
\* a row 40 days old with a close, which the monthly lookback finds
InitialTable ==
    SetToBag({ EmptyRow("B", StartDay, StartDay - 1),
               HistoryRow("A", StartDay - 40, 100) })

\* the company tables a behaviour starts from: both companies active, only
\* B active, none active
Universes ==
    { [s \in Symbols |-> TRUE],
      [s \in Symbols |-> s = "B"],
      [s \in Symbols |-> FALSE] }

NoOptions == [force |-> FALSE, symbol |-> NoSymbol, batch_size |-> 0,
              max_companies |-> NoLimit, api_key |-> ""]
ZeroCounts == [processed |-> 0, successful |-> 0, failed |-> 0]

Init ==
    /\ now = StartDay
    /\ is_active \in Universes
    /\ db = InitialTable
    /\ txn = NULL
    /\ events = 0
    /\ cmd = "idle"
    /\ opt = NoOptions
    /\ companies_to_update = <<>>
    /\ i = 0
    /\ k = 0
    /\ pc = "idle"
    /\ metrics = NULL
    /\ quote_data = NULL
    /\ financials = NULL
    /\ outcome = ""
    /\ counts = ZeroCounts
    /\ tally = NULL
    /\ fetched = <<>>
    /\ interrupted = FALSE
    /\ pre_db = EmptyBag
    /\ raised = 0
    /\ clock = 0
    /\ total_companies = 0
    /\ delay = 0
    /\ batch_start_time = 0
    /\ start_time = 0
    /\ calls = <<>>
    /\ window_i = 0
    /\ SchedRest

\* an environment event draws on the budget of the behaviour
Event(happens) ==
    IF happens THEN events < MaxEvents /\ events' = events + 1
    ELSE events' = events

\* no run is in progress
Ended == pc \in {"idle", "done", "aborted"}

\* the locals of a run as a fresh process has them
FreshRun ==
    /\ Event(TRUE)
    /\ i' = 0
    /\ k' = 0
    /\ metrics' = NULL
    /\ quote_data' = NULL
    /\ financials' = NULL
    /\ outcome' = ""
    /\ counts' = ZeroCounts
    /\ tally' = NULL
    /\ fetched' = <<>>
    /\ interrupted' = FALSE
    /\ pre_db' = EmptyBag
    /\ raised' = 0


\* the clock passes midnight
Midnight ==
    /\ Event(TRUE)
    /\ now' = now + 1
    /\ UNCHANGED <<tech_data, runs, schedVars, paceVars,
                   is_active, db, txn, cmd, opt, companies_to_update, i, k,
                   pc, metrics, quote_data, financials, outcome, counts, tally,
                   fetched, interrupted, pre_db, raised>>

(* ------------------------------ the worker ---------------------------- *)
\* settings without FINNHUB_API_KEY: getattr(...) gives None
NoKey == "<none>"

\* a key check that lets every run through
key_configured_always(command, api_key) == TRUE

\* the key check of handle: 'not api_key', and in the worker also 'demo'
key_configured(command, api_key) ==
    /\ api_key # NoKey /\ api_key # ""
    /\ command = "worker" => api_key # "demo"

\* the option and key combinations a worker run is started with: every
\* combination of force, max-companies and batch size with a configured key,
\* and the defaults with a key that is not configured
WorkerOptions ==
    { [force |-> f, symbol |-> NoSymbol, batch_size |-> bs, max_companies |-> mx,
       api_key |-> "key"] :
         f \in BOOLEAN, bs \in {1, 2}, mx \in {NoLimit, Num(0), Num(1)} }
    \cup
    { [force |-> FALSE, symbol |-> NoSymbol, batch_size |-> 2,
       max_companies |-> NoLimit, api_key |-> key] : key \in {NoKey, "", "demo"} }

\* the company the worker is at
WorkerCompany == companies_to_update[i + k + 1]
\* companies[i:i + batch_size]
BatchLen ==
    IF i + opt.batch_size <= Len(companies_to_update)
    THEN opt.batch_size ELSE Len(companies_to_update) - i

\* sp500_worker.Command.handle, lines 42-62: the options, the key check, the
\* selection, the early returns
WorkerHandle ==
    /\ Ended
    /\ \E o \in WorkerOptions :
         LET selected == IF key_configured("worker", o.api_key)
                        THEN get_companies_to_update(is_active, db, now, o.force,
                                                     o.max_companies)
                        ELSE <<>>
         IN  /\ cmd' = "worker"
             /\ opt' = o
             /\ companies_to_update' = selected
             /\ pc' = IF selected = <<>> THEN "done" ELSE "w_selected"
    /\ FreshRun
    /\ UNCHANGED <<tech_data, runs, schedVars, paceVars,
                   now, is_active, db, txn, raised>>

\* the options the loops still read, and force; max_companies, symbol and
\* the key are not read after the selection and are dropped with it, so that
\* runs that differ only in them share their states
LoopOptions == [NoOptions EXCEPT !.batch_size = opt.batch_size, !.force = opt.force]

\* handle, lines 64-76: the counters are set and the first batch starts
WorkerStart ==
    /\ pc = "w_selected"
    /\ opt' = LoopOptions
    /\ pc' = "w_company"
    /\ UNCHANGED <<tech_data, runs, schedVars, paceVars,
                   now, is_active, db, txn, events, cmd, companies_to_update, i, k,
                   metrics, quote_data, financials, outcome, counts, tally, fetched,
                   interrupted, pre_db, raised>>

\* fetch_and_save_metrics: transaction.atomic() is entered and today's row is
\* got or created
WorkerGetOrCreate ==
    /\ pc = "w_company"
    /\ LET t == atomic(db)
           g == get_or_create(db, WorkerCompany, now, now)
       IN  /\ txn' = IF t = NULL THEN NULL ELSE Some(g.table)
           /\ db' = IF t = NULL THEN g.table ELSE db
           /\ metrics' = Some(g.obj)
    /\ pre_db' = db
    /\ pc' = "w_sector"
    /\ UNCHANGED <<tech_data, runs, schedVars, paceVars,
                   now, is_active, events, cmd, opt, companies_to_update, i, k,
                   quote_data, financials, outcome, counts, tally, fetched,
                   interrupted, raised>>

\* fetch_company_sector and "if sector: metrics.sector = sector"
WorkerSector ==
    /\ pc = "w_sector"
    /\ \E sector \in Outcomes(RemoteSector(WorkerCompany)) :
         /\ Event(sector = NULL)
         /\ metrics' = IF sector # NULL /\ sector[1] # ""
                       THEN Some([metrics[1] EXCEPT !.sector = sector[1]])
                       ELSE metrics
    /\ fetched' = Append(fetched, WorkerCompany)
    /\ pc' = "w_quote"
    /\ UNCHANGED <<tech_data, runs, schedVars, paceVars,
                   now, is_active, db, txn, cmd, opt, companies_to_update,
                   i, k, quote_data, financials, outcome, counts, tally, interrupted,
                   pre_db, raised>>

\* fetch_quote and update_price_data
WorkerQuote ==
    /\ pc = "w_quote"
    /\ \E quote \in Outcomes(RemoteQuote(WorkerCompany)) :
         /\ Event(quote = NULL)
         /\ quote_data' = quote
         /\ metrics' = IF quote # NULL
                       THEN Some(update_price_data(metrics[1], quote[1]))
                       ELSE metrics
    /\ pc' = "w_fin"
    /\ UNCHANGED <<tech_data, runs, schedVars, paceVars,
                   now, is_active, db, txn, cmd, opt, companies_to_update,
                   i, k, financials, outcome, counts, tally, fetched, interrupted,
                   pre_db, raised>>

\* fetch_financials, update_financial_metrics, calculate_price_changes
WorkerFinancials ==
    /\ pc = "w_fin"
    /\ \E fin \in Outcomes(RemoteMetric(WorkerCompany)) :
         /\ Event(fin = NULL)
         /\ financials' = fin
         /\ LET m == IF fin # NULL
                     THEN update_financial_metrics(metrics[1], fin[1])
                     ELSE metrics[1]
            IN  metrics' = Some(calculate_price_changes(m, View, now))
    /\ pc' = "w_save"
    /\ UNCHANGED <<tech_data, runs, schedVars, paceVars,
                   now, is_active, db, txn, cmd, opt, companies_to_update,
                   i, k, quote_data, outcome, counts, tally, fetched, interrupted,
                   pre_db, raised>>

\* a failure that is not counted
Failed_uncounted(c) == c

\* handle: failed += 1
Failed(c) == [c EXCEPT !.failed = @ + 1]

\* metrics.save() and the atomic block commits, fetch_and_save_metrics
\* returns True and handle counts a success; or the save raises, the block
\* rolls back, False is returned and handle counts a failure
WorkerSave ==
    /\ pc = "w_save"
    /\ \/ /\ db' = save(View, metrics[1], now)
          /\ outcome' = "saved"
          /\ counts' = [counts EXCEPT !.successful = @ + 1]
          /\ Event(FALSE)
          /\ raised' = raised
       \/ /\ db' = db
          /\ outcome' = "save_raised"
          /\ counts' = Failed(counts)
          /\ Event(TRUE)
          /\ raised' = raised + 1
    /\ txn' = NULL
    /\ metrics' = NULL
    /\ pc' = "w_report"
    /\ UNCHANGED <<tech_data, runs, schedVars, paceVars,
                   now, is_active, cmd, opt, companies_to_update, i, k,
                   quote_data, financials, tally, fetched, interrupted, pre_db>>

\* a loop that stays at the company
WorkerNextCompany_again ==
    /\ quote_data' = NULL
    /\ financials' = NULL
    /\ outcome' = ""
    /\ pre_db' = EmptyBag
    /\ k' = k /\ pc' = "w_company"

\* the loop moves on from the company: the next company of the batch, or the
\* batch is over
WorkerNextCompany ==
    /\ quote_data' = NULL
    /\ financials' = NULL
    /\ outcome' = ""
    /\ pre_db' = EmptyBag
    /\ IF k + 1 < BatchLen
       THEN k' = k + 1 /\ pc' = "w_company"
       ELSE k' = k /\ pc' = "w_ratelimit"

\* handle, lines 82-87: the [SUCCESS] or [FAILED] line is written and
\* processed is counted; or the write raises and "except Exception" counts a
\* failure and the loop moves on
WorkerReport ==
    /\ pc = "w_report"
    /\ \/ /\ Event(FALSE)
          /\ counts' = [counts EXCEPT !.processed = @ + 1]
          /\ pc' = "w_delay"
          /\ raised' = raised
          /\ UNCHANGED <<k, quote_data, financials, outcome, pre_db>>
       \/ /\ Event(TRUE)
          /\ counts' = Failed(counts)
          /\ raised' = raised + 1
          /\ WorkerNextCompany
    /\ UNCHANGED <<tech_data, runs, schedVars, paceVars,
                   now, is_active, db, txn, cmd, opt, companies_to_update,
                   i, metrics, tally, fetched, interrupted>>

\* handle, line 90: time.sleep(delay) returns; or it raises and
\* "except Exception" counts a failure; the loop moves on
WorkerDelay ==
    /\ pc = "w_delay"
    /\ \/ Event(FALSE) /\ counts' = counts /\ raised' = raised
       \/ Event(TRUE) /\ counts' = Failed(counts) /\ raised' = raised + 1
    /\ WorkerNextCompany
    /\ UNCHANGED <<tech_data, runs, schedVars, paceVars,
                   now, is_active, db, txn, cmd, opt, companies_to_update,
                   i, metrics, tally, fetched, interrupted>>

\* the rate-limit wait after a batch returns: the next batch starts, or the
\* loop is over and the final tally is printed
WorkerRateLimit ==
    /\ pc = "w_ratelimit"
    /\ IF i + opt.batch_size < Len(companies_to_update)
       THEN /\ i' = i + opt.batch_size
            /\ k' = 0
            /\ pc' = "w_company"
            /\ tally' = tally
       ELSE /\ i' = i
            /\ k' = k
            /\ pc' = "done"
            /\ tally' = Some(counts)
    /\ UNCHANGED <<tech_data, runs, schedVars, paceVars,
                   now, is_active, db, txn, events, cmd, opt, companies_to_update,
                   metrics, quote_data, financials, outcome, counts, fetched,
                   interrupted, pre_db, raised>>

\* KeyboardInterrupt. Inside "for company in batch" the atomic block rolls
\* back and the handler breaks out of the batch; before the first batch and
\* during the rate-limit wait nothing catches it and the command ends
WorkerInterrupt ==
    /\ pc \in {"w_selected", "w_company", "w_sector", "w_quote", "w_fin", "w_save",
               "w_report", "w_delay", "w_ratelimit"}
    /\ txn' = NULL
    /\ metrics' = NULL
    /\ quote_data' = NULL
    /\ financials' = NULL
    /\ outcome' = ""
    /\ Event(TRUE)
    /\ pre_db' = EmptyBag
    /\ IF pc \in {"w_selected", "w_ratelimit"}
       THEN pc' = "aborted" /\ interrupted' = interrupted
       ELSE pc' = "w_ratelimit" /\ interrupted' = TRUE
    /\ UNCHANGED <<tech_data, runs, schedVars, paceVars,
                   now, is_active, db, cmd, opt, companies_to_update, i, k,
                   counts, tally, fetched, raised>>

(* --------------------------- the collect command ---------------------- *)
\* the option and key combinations a collect run is started with ("ZZ" is
\* no symbol of SP500Company)
CollectOptions ==
    { [force |-> f, symbol |-> sym, batch_size |-> 60, max_companies |-> NoLimit,
       api_key |-> "key"] : f \in BOOLEAN, sym \in {NoSymbol, "A", "ZZ"} }
    \cup
    { [force |-> FALSE, symbol |-> NoSymbol, batch_size |-> 60,
       max_companies |-> NoLimit, api_key |-> key] : key \in {NoKey, "", "demo"} }

\* the exit status of the collect command after handle has returned with
\* the given number of companies updated: handle ends by a bare return or by
\* falling off its end on every path, it raises no CommandError and calls no
\* sys.exit, and the management command then exits with status 0
collect_exit_status(processed) == 0

\* the company the collect command is at
CollectCompany == companies_to_update[i + 1]

\* collect_sp500_data.Command.handle, lines 31-74: the options, the key check,
\* the companies, the gate, the early returns
CollectHandle ==
    /\ Ended
    /\ \E o \in CollectOptions :
         LET selected == IF key_configured("collect", o.api_key)
                         THEN CollectToUpdate(is_active, db, now, o.force, o.symbol)
                         ELSE <<>>
         IN  /\ cmd' = "collect"
             /\ opt' = o
             /\ companies_to_update' = selected
             /\ pc' = IF selected = <<>> THEN "done" ELSE "c_selected"
    /\ FreshRun
    /\ UNCHANGED <<tech_data, runs, schedVars, paceVars,
                   now, is_active, db, txn, raised>>

\* handle, lines 76-80: the counter and the window start are set, the loop
\* begins
CollectStart ==
    /\ pc = "c_selected"
    /\ opt' = LoopOptions
    /\ pc' = "c_quote"
    /\ UNCHANGED <<tech_data, runs, schedVars, paceVars,
                   now, is_active, db, txn, events, cmd, companies_to_update, i, k,
                   metrics, quote_data, financials, outcome, counts, tally, fetched,
                   interrupted, pre_db, raised>>

\* the window check of the company, then fetch_company_data: the quote
\* request; a RequestException returns False
CollectQuote ==
    /\ pc = "c_quote"
    /\ \E quote \in Outcomes(RemoteQuote(CollectCompany)) :
         /\ Event(quote = NULL)
         /\ quote_data' = quote
         /\ IF quote = NULL
            THEN outcome' = "request_failed" /\ pc' = "c_delay"
                 /\ raised' = raised + 1
            ELSE outcome' = "" /\ pc' = "c_fin" /\ raised' = raised
    /\ fetched' = Append(fetched, CollectCompany)
    /\ pre_db' = db
    /\ UNCHANGED <<tech_data, runs, schedVars, paceVars,
                   now, is_active, db, txn, cmd, opt, companies_to_update,
                   i, k, metrics, financials, counts, tally, interrupted>>

\* a fundamentals step that creates the record before it looks at the response
CollectFinancials_creating ==
    /\ pc = "c_fin"
    /\ \E fin \in Outcomes(RemoteMetric(CollectCompany)) :
         /\ Event(fin = NULL)
         /\ financials' = fin
         /\ db' = get_or_create(db, CollectCompany, now, now).table
         /\ IF fin = NULL \/ CollectMetricsRaise(fin[1])
            THEN /\ metrics' = NULL
                 /\ outcome' = IF fin = NULL THEN "request_failed" ELSE "unexpected"
                 /\ raised' = raised + 1
                 /\ pc' = "c_delay"
            ELSE /\ metrics' = Some(CollectApplyMetrics(
                         CollectApplyQuote(get_or_create(db, CollectCompany, now, now).obj,
                                           quote_data[1]), fin[1]))
                 /\ outcome' = ""
                 /\ raised' = raised
                 /\ pc' = "c_ma"
    /\ UNCHANGED <<tech_data, runs, schedVars, paceVars,
                   now, is_active, txn, cmd, opt, companies_to_update, i, k,
                   quote_data, counts, tally, fetched, interrupted, pre_db>>

\* fetch_company_data: the fundamentals request (a RequestException returns
\* False); then get_or_create, which commits at once, and the quote and the
\* metric values are set on the object (a TypeError returns False)
CollectFinancials ==
    /\ pc = "c_fin"
    /\ \E fin \in Outcomes(RemoteMetric(CollectCompany)) :
         /\ Event(fin = NULL)
         /\ financials' = fin
         /\ IF fin = NULL
            THEN /\ db' = db
                 /\ metrics' = NULL
                 /\ outcome' = "request_failed"
                 /\ raised' = raised + 1
                 /\ pc' = "c_delay"
            ELSE LET g == get_or_create(db, CollectCompany, now, now)
                 IN  /\ db' = g.table
                     /\ IF CollectMetricsRaise(fin[1])
                        THEN /\ metrics' = NULL
                             /\ outcome' = "unexpected"
                             /\ raised' = raised + 1
                             /\ pc' = "c_delay"
                        ELSE /\ metrics' = Some(CollectApplyMetrics(
                                     CollectApplyQuote(g.obj, quote_data[1]), fin[1]))
                             /\ outcome' = ""
                             /\ raised' = raised
                             /\ pc' = "c_ma"
    /\ UNCHANGED <<tech_data, runs, schedVars, paceVars,
                   now, is_active, txn, cmd, opt, companies_to_update, i, k,
                   quote_data, counts, tally, fetched, interrupted, pre_db>>

\* fetch_company_data: the four indicator requests, each in its own try
CollectIndicators ==
    /\ pc = "c_ma"
    /\ \E down \in IndicatorOutages :
         LET body == RemoteIndicator(CollectCompany)
             ind == [p \in PeriodSet |-> IF p \in down THEN <<>> ELSE body[p]]
         IN  /\ Event(down # {})
             /\ metrics' = Some(CollectApplyIndicators(metrics[1], ind))
    /\ pc' = "c_save"
    /\ UNCHANGED <<tech_data, runs, schedVars, paceVars,
                   now, is_active, db, txn, cmd, opt, companies_to_update,
                   i, k, quote_data, financials, outcome, counts, tally, fetched,
                   interrupted, pre_db, raised>>

\* company_metrics.save() and True, which handle counts; or the save raises
\* and False is returned
CollectSave ==
    /\ pc = "c_save"
    /\ \/ /\ db' = save(db, metrics[1], now)
          /\ outcome' = "saved"
          /\ counts' = [counts EXCEPT !.processed = @ + 1]
          /\ Event(FALSE)
          /\ raised' = raised
       \/ /\ db' = db
          /\ outcome' = "save_raised"
          /\ counts' = counts
          /\ Event(TRUE)
          /\ raised' = raised + 1
    /\ metrics' = NULL
    /\ pc' = "c_delay"
    /\ UNCHANGED <<tech_data, runs, schedVars, paceVars,
                   now, is_active, txn, cmd, opt, companies_to_update, i, k,
                   quote_data, financials, tally, fetched, interrupted, pre_db>>

\* handle, lines 95-102: the [SUCCESS] or [FAILED] line is written and
\* time.sleep(1) returns, or one of them raises and "except Exception" writes
\* the error; then the next company, or the loop is over and the final line
\* is printed
CollectDelay ==
    /\ pc = "c_delay"
    /\ \E raises \in BOOLEAN :
         Event(raises) /\ raised' = IF raises THEN raised + 1 ELSE raised
    /\ quote_data' = NULL
    /\ financials' = NULL
    /\ outcome' = ""
    /\ pre_db' = EmptyBag
    /\ IF i + 1 < Len(companies_to_update)
       THEN i' = i + 1 /\ pc' = "c_quote" /\ tally' = tally
       ELSE i' = i /\ pc' = "done" /\ tally' = Some(counts)
    /\ UNCHANGED <<tech_data, runs, schedVars, paceVars,
                   now, is_active, db, txn, cmd, opt, companies_to_update,
                   k, metrics, counts, fetched, interrupted>>

\* KeyboardInterrupt. Inside the loop body it is caught, the loop is left and
\* the final line is printed; before the loop nothing catches it
CollectInterrupt ==
    /\ pc \in {"c_selected", "c_quote", "c_fin", "c_ma", "c_save", "c_delay"}
    /\ metrics' = NULL
    /\ quote_data' = NULL
    /\ financials' = NULL
    /\ outcome' = ""
    /\ Event(TRUE)
    /\ pre_db' = EmptyBag
    /\ IF pc = "c_selected"
       THEN pc' = "aborted" /\ interrupted' = interrupted /\ tally' = tally
       ELSE pc' = "done" /\ tally' = Some(counts) /\ interrupted' = TRUE
    /\ UNCHANGED <<tech_data, runs, schedVars, paceVars,
                   now, is_active, db, txn, cmd, opt, companies_to_update,
                   i, k, counts, fetched, raised>>

Next ==
    \/ Midnight
    \/ WorkerHandle
    \/ WorkerStart
    \/ WorkerGetOrCreate
    \/ WorkerSector
    \/ WorkerQuote
    \/ WorkerFinancials
    \/ WorkerSave
    \/ WorkerReport
    \/ WorkerDelay
    \/ WorkerRateLimit
    \/ WorkerInterrupt
    \/ CollectHandle
    \/ CollectStart
    \/ CollectQuote
    \/ CollectFinancials
    \/ CollectIndicators
    \/ CollectSave
    \/ CollectDelay
    \/ CollectInterrupt

Spec == Init /\ [][Next]_vars

\* the steps a run takes by itself once it is started: every remote call
\* returns or times out, every sleep ends, every statement is executed
RunStep ==
    \/ WorkerStart
    \/ WorkerGetOrCreate
    \/ WorkerSector
    \/ WorkerQuote
    \/ WorkerFinancials
    \/ WorkerSave
    \/ WorkerReport
    \/ WorkerDelay
    \/ WorkerRateLimit
    \/ CollectStart
    \/ CollectQuote
    \/ CollectFinancials
    \/ CollectIndicators
    \/ CollectSave
    \/ CollectDelay

\* the runs of Spec under the assumption that a run that can take a step
\* does take one
SpecFair == Spec /\ WF_vars(RunStep)


(* ------------------------------- pacing ------------------------------- *)
\* SpecPace runs the two loops against a clock. A company is its index; a
\* remote call takes no time or the request timeout; a sleep takes its
\* argument.

\* companies a worker run and a collect run of SpecPace select at most
MaxWorkerCompanies == 21
MaxCollectCompanies == 11
\* slow or failing companies and operator interrupts in one run of SpecPace
MaxPaceEvents == 2

\* ticks in a second: the tick is the 0.2 s of time.sleep(0.2)
Second == 5
\* time.sleep(0.2) after an indicator request, in ticks
IndicatorPause == 1
\* collect: time.sleep(1) after a company, in seconds
CollectPause == 1
\* collect: "if elapsed < 60", in seconds
WindowSeconds == 60
\* worker: "batch_size * delay + 2", in seconds
Buffer == 2
\* requests.get(..., timeout=10), in seconds
RequestTimeout == 10
\* the defaults of --batch-size and --delay of the worker, of --batch-size of
\* the collect command
DefaultBatchSize == 10
DefaultDelay == 1
CollectBatchSize == 60
\* "rate limiting (60 calls/minute)": the calls and the seconds of the quota
QuotaCalls == 60
QuotaSeconds == 60

\* the time a remote call takes, in ticks
Latencies == {0, RequestTimeout * Second}

\* the runs of SpecPace: the defaults over enough companies to fill a minute,
\* and small batches over a few companies
PaceRuns ==
    { [cmd |-> "worker", batch_size |-> DefaultBatchSize,
       delay |-> DefaultDelay * Second, total |-> MaxWorkerCompanies] }
    \cup
    { [cmd |-> "worker", batch_size |-> 2, delay |-> d, total |-> n] :
         d \in {0, 2, Second}, n \in {1, 3, 4} }
    \cup
    { [cmd |-> "collect", batch_size |-> CollectBatchSize, delay |-> 0,
       total |-> MaxCollectCompanies] }
    \cup
    { [cmd |-> "collect", batch_size |-> 2, delay |-> 0, total |-> n] :
         n \in {1, 3, 5} }

\* the times of n calls from t on, each taking lat and followed by pause
CallTimes(t, n, lat, pause) == [j \in 1..n |-> t + (j - 1) * (lat + pause)]

\* fetch_and_save_metrics: profile, quote, metric, back to back
WorkerCallTimes(t, lat) == CallTimes(t, 3, lat, 0)

\* fetch_company_data: quote, metric, then the four indicator requests
CollectCallTimes(t, lat) ==
    CallTimes(t, 2, lat, 0) \o CallTimes(t + 2 * lat, Len(Periods), lat, IndicatorPause)

\* the log after calls at `times` (ascending): what is too old to share a
\* quota window with the first of them is dropped
Logged(log, times) ==
    SelectSeq(log, LAMBDA t : t > times[1] - QuotaSeconds * Second) \o times

\* worker without the buffer
min_batch_time_bare(batch_size, d) == batch_size * d

\* sp500_worker handle: min_batch_time = batch_size * delay + 2
min_batch_time(batch_size, d) == batch_size * d + Buffer * Second

\* sp500_worker handle: the sleep after a batch
RateLimitWait(batch_elapsed, batch_size, d) ==
    IF batch_elapsed < min_batch_time(batch_size, d)
    THEN min_batch_time(batch_size, d) - batch_elapsed
    ELSE 0

\* a sleep of the whole window
sleep_time_whole(elapsed) ==
    IF elapsed < WindowSeconds * Second THEN WindowSeconds * Second ELSE 0

\* collect handle: sleep_time = 60 - elapsed when elapsed < 60
sleep_time(elapsed) ==
    IF elapsed < WindowSeconds * Second THEN WindowSeconds * Second - elapsed ELSE 0

\* collect handle: "if i > 0 and i % batch_size == 0"
WindowDue(index, batch_size) == index > 0 /\ index % batch_size = 0

PaceInit ==
    /\ now = StartDay
    /\ is_active = [s \in Symbols |-> TRUE]
    /\ db = InitialTable
    /\ txn = NULL
    /\ events = 0
    /\ companies_to_update = <<>>
    /\ i = 0
    /\ k = 0
    /\ metrics = NULL
    /\ quote_data = NULL
    /\ financials = NULL
    /\ outcome = ""
    /\ counts = ZeroCounts
    /\ tally = NULL
    /\ fetched = <<>>
    /\ interrupted = FALSE
    /\ pre_db = EmptyBag
    /\ raised = 0
    /\ clock = 0
    /\ batch_start_time = 0
    /\ start_time = 0
    /\ calls = <<>>
    /\ window_i = 0
    /\ SchedRest
    /\ \E r \in PaceRuns :
         /\ cmd = r.cmd
         /\ opt = [NoOptions EXCEPT !.batch_size = r.batch_size]
         /\ delay = r.delay
         /\ total_companies = r.total
         /\ pc = IF r.cmd = "worker" THEN "pw_company" ELSE "pc_window"

\* a slow or failing company, or an interrupt, draws on the budget of the run
PaceEvent(happens) ==
    IF happens THEN events < MaxPaceEvents /\ events' = events + 1
    ELSE events' = events

\* len(companies[i:i + batch_size])
PaceBatchLen ==
    IF i + opt.batch_size <= total_companies
    THEN opt.batch_size ELSE total_companies - i

\* worker, one pass of "for company in batch": the three calls of
\* fetch_and_save_metrics, then time.sleep(delay)
PaceWorkerCompany ==
    /\ pc = "pw_company"
    /\ \E lat \in Latencies :
         /\ PaceEvent(lat # 0)
         /\ calls' = Logged(calls, WorkerCallTimes(clock, lat))
         /\ clock' = clock + 3 * lat + delay
    /\ IF k + 1 < PaceBatchLen
       THEN k' = k + 1 /\ pc' = "pw_company"
       ELSE k' = k /\ pc' = "pw_ratelimit"
    /\ UNCHANGED <<tech_data, runs, schedVars, dataVars,
                   cmd, opt, i, interrupted, total_companies, delay,
                   batch_start_time, start_time, window_i>>

\* worker, the rate limiting after the batch, then the next batch starts
\* (batch_start_time = time.time()) or the loop is over
PaceWorkerRateLimit ==
    /\ pc = "pw_ratelimit"
    /\ clock' = clock + RateLimitWait(clock - batch_start_time, opt.batch_size, delay)
    /\ IF i + opt.batch_size < total_companies
       THEN /\ i' = i + opt.batch_size
            /\ k' = 0
            /\ pc' = "pw_company"
            /\ batch_start_time' = clock'
       ELSE /\ i' = i
            /\ k' = k
            /\ pc' = "p_done"
            /\ batch_start_time' = batch_start_time
    /\ UNCHANGED <<tech_data, runs, schedVars, dataVars,
                   events, cmd, opt, interrupted, total_companies, delay,
                   start_time, calls, window_i>>

\* worker, KeyboardInterrupt: inside the batch the handler breaks and the
\* rate limiting follows; during the rate-limit sleep the command ends
PaceWorkerInterrupt ==
    /\ pc \in {"pw_company", "pw_ratelimit"}
    /\ PaceEvent(TRUE)
    /\ IF pc = "pw_company"
       THEN pc' = "pw_ratelimit" /\ interrupted' = TRUE
       ELSE pc' = "p_aborted" /\ interrupted' = interrupted
    /\ UNCHANGED <<tech_data, runs, schedVars, dataVars,
                   cmd, opt, i, k, paceVars>>

\* collect, the top of the loop body: the window check, the sleep, the reset
PaceCollectWindow ==
    /\ pc = "pc_window"
    /\ IF WindowDue(i, opt.batch_size)
       THEN /\ clock' = clock + sleep_time(clock - start_time)
            /\ start_time' = clock'
            /\ window_i' = i
       ELSE UNCHANGED <<clock, start_time, window_i>>
    /\ pc' = "pc_fetch"
    /\ UNCHANGED <<tech_data, runs, schedVars, dataVars,
                   events, cmd, opt, i, k, interrupted, total_companies,
                   delay, batch_start_time, calls>>

\* collect, fetch_company_data and time.sleep(1): all six calls, or the quote
\* request fails and no other call is made
PaceCollectCompany ==
    /\ pc = "pc_fetch"
    /\ \E lat \in Latencies, quote_ok \in BOOLEAN :
         /\ PaceEvent(lat # 0 \/ ~quote_ok)
         /\ IF quote_ok
            THEN /\ calls' = Logged(calls, CollectCallTimes(clock, lat))
                 /\ clock' = clock + 2 * lat + Len(Periods) * (lat + IndicatorPause)
                                   + CollectPause * Second
            ELSE /\ calls' = Logged(calls, <<clock>>)
                 /\ clock' = clock + lat + CollectPause * Second
    /\ IF i + 1 < total_companies
       THEN i' = i + 1 /\ pc' = "pc_window"
       ELSE i' = i /\ pc' = "p_done"
    /\ UNCHANGED <<tech_data, runs, schedVars, dataVars,
                   cmd, opt, k, interrupted, total_companies, delay,
                   batch_start_time, start_time, window_i>>

\* collect, KeyboardInterrupt inside the loop body: break
PaceCollectInterrupt ==
    /\ pc \in {"pc_window", "pc_fetch"}
    /\ PaceEvent(TRUE)
    /\ pc' = "p_done"
    /\ interrupted' = TRUE
    /\ UNCHANGED <<tech_data, runs, schedVars, dataVars,
                   cmd, opt, i, k, paceVars>>

PaceNext ==
    \/ PaceWorkerCompany
    \/ PaceWorkerRateLimit
    \/ PaceWorkerInterrupt
    \/ PaceCollectWindow
    \/ PaceCollectCompany
    \/ PaceCollectInterrupt

SpecPace == PaceInit /\ [][PaceNext]_vars

(* ------------------- the scheduler: run_daily_collection ------------------- *)
\* The scheduler: run_daily_collection.py. The date is now; the time of day is
\* the watch of the day it falls in, the target time being the start of a
\* watch. A sleep of 60 seconds ends in the same watch or in the next one.

\* the watches of a day
Watches == 3

\* the scheduler is started on a day of the first week, and the behaviours
\* end this many days after that week
SchedDays == 2

\* the longest collection, in watches: more than a day
LongestCollection == 4

\* date.weekday(): Monday is 0, Sunday is 6
weekday(date) == date % 7

\* --target-time is a string; split(':') cuts it into parts. A part is
\* text that int() accepts, with its value, or text that int() rejects; a
\* value beyond the width of a C int is kept apart, the width being what
\* datetime.time's argument conversion looks at
Digits(n) == [numeric |-> TRUE, fits_int |-> TRUE, value |-> n]
Letters == [numeric |-> FALSE, fits_int |-> TRUE, value |-> 0]
HugeDigits == [numeric |-> TRUE, fits_int |-> FALSE, value |-> 0]

\* the strings the scheduler is started with: a full hour in every watch,
\* the default 16:30, and strings that are no HH:MM time
TargetStrings ==
    { <<Digits((w * 24) \div Watches), Digits(0)>> : w \in 0 .. Watches - 1 }
    \cup { <<Digits(16), Digits(30)>> }
    \cup { <<Letters, Digits(30)>>, <<Digits(16), Letters>>, <<Letters>>, <<Digits(16)>>,
           <<Digits(16), Digits(30), Digits(0)>>, <<Digits(16), Digits(30), Letters>>,
           <<Digits(24), Digits(0)>>, <<Digits(16), Digits(60)>>, <<Digits(-1), Digits(30)>>,
           <<HugeDigits, Digits(0)>>, <<Digits(16), HugeDigits>>, <<HugeDigits, Letters>> }

\* the watch a time of day falls in
watch_of(hour, minute) == ((hour * 60 + minute) * Watches) \div 1440

\* lines 27-29 of handle: target_hour, target_minute = map(int, split(':'))
\* and dt_time(target_hour, target_minute). int() and the unpacking raise
\* ValueError; dt_time raises ValueError for a field out of range, and for
\* an argument beyond a C int the C implementation of datetime raises
\* OverflowError where the Python implementation raises ValueError
parse_target_time(parts, c_datetime) ==
    IF Len(parts) # 2 \/ \E j \in 1 .. Len(parts) : j <= 3 /\ ~parts[j].numeric
    THEN [error |-> "ValueError", time |-> NULL]
    ELSE IF ~parts[1].fits_int \/ ~parts[2].fits_int
    THEN [error |-> IF c_datetime THEN "OverflowError" ELSE "ValueError", time |-> NULL]
    ELSE IF parts[1].value \notin 0 .. 23 \/ parts[2].value \notin 0 .. 59
    THEN [error |-> "ValueError", time |-> NULL]
    ELSE [error |-> "none", time |-> Some(watch_of(parts[1].value, parts[2].value))]

\* the clock moves on by a number of watches
Elapse(watches) ==
    /\ now + (time_of_day + watches) \div Watches <= StartDay + 6 + SchedDays
    /\ now' = now + (time_of_day + watches) \div Watches
    /\ time_of_day' = (time_of_day + watches) % Watches

\* the polling condition without the weekday test
collection_is_due_daily(current_date, current_time, target_time, run_today) ==
    current_time >= target_time /\ ~run_today

\* lines 64-66 of handle: it is time to run and the collection has not run today
collection_is_due(current_date, current_time, target_time, run_today) ==
    current_time >= target_time /\ ~run_today /\ weekday(current_date) < 5

\* a flag that a new day does not reset
flag_at_poll_kept(current_date, last_date, run_today) == run_today

\* lines 58-59 of handle: the flag is reset on a new day
flag_at_poll(current_date, last_date, run_today) ==
    IF current_date # last_date THEN FALSE ELSE run_today

\* the entry of the history for a collection that starts now
Trigger(once) == [date |-> now, time |-> time_of_day, once |-> once]

\* run_collection has returned, with or without an error of the commands it
\* called, after a number of watches
Returns ==
    \E watches \in 0 .. LongestCollection, error \in BOOLEAN :
        /\ Elapse(watches)
        /\ last_run' = Some([ended |-> now', error |-> error])

SchedInit ==
    /\ now \in StartDay .. StartDay + 6
    /\ time_of_day \in 0 .. Watches - 1
    /\ collection_run_today = FALSE
    /\ last_check_date = 0
    /\ triggers = <<>>
    /\ last_run = NULL
    /\ due = {}
    /\ runs = [r \in Runs |-> NoRun]
    /\ tech_data = NULL
    /\ is_active = [s \in Symbols |-> TRUE]
    /\ db = InitialTable
    /\ txn = NULL
    /\ events = 0
    /\ cmd = "idle"
    /\ opt = NoOptions
    /\ companies_to_update = <<>>
    /\ i = 0
    /\ k = 0
    /\ pc = "idle"
    /\ metrics = NULL
    /\ quote_data = NULL
    /\ financials = NULL
    /\ outcome = ""
    /\ counts = ZeroCounts
    /\ tally = NULL
    /\ fetched = <<>>
    /\ interrupted = FALSE
    /\ pre_db = EmptyBag
    /\ raised = 0
    /\ clock = 0
    /\ total_companies = 0
    /\ delay = 0
    /\ batch_start_time = 0
    /\ start_time = 0
    /\ calls = <<>>
    /\ window_i = 0

\* handle, lines 23-49: the target time is parsed; a ValueError is caught,
\* reported, and the command returns; any other exception leaves handle;
\* with --run-once the collection is run at once; otherwise the polling loop
\* is entered
SchedHandle ==
    /\ pc = "idle"
    /\ cmd' = "run_daily"
    /\ \E run_once \in BOOLEAN, target_time_str \in TargetStrings, c_datetime \in BOOLEAN :
         LET parsed == parse_target_time(target_time_str, c_datetime)
         IN
         /\ opt' = [run_once |-> run_once, target_time_str |-> target_time_str,
                    target_time |-> parsed.time]
         /\ IF parsed.error = "ValueError"
            THEN pc' = "returned" /\ triggers' = triggers
            ELSE IF parsed.error # "none"
            THEN pc' = "raised" /\ triggers' = triggers
            ELSE IF run_once
                 THEN pc' = "s_once" /\ triggers' = Append(triggers, Trigger(TRUE))
                 ELSE pc' = "s_poll" /\ triggers' = triggers
    /\ collection_run_today' = FALSE
    /\ last_check_date' = now
    /\ UNCHANGED <<tech_data, runs, dataVars, paceVars, events, i, k, interrupted, time_of_day,
                   last_run, due>>

\* a run-once scheduler that goes on to the polling loop after its collection
SchedOnce_polling ==
    /\ pc = "s_once"
    /\ Returns
    /\ pc' = "s_poll"
    /\ UNCHANGED <<tech_data, runs, is_active, db, txn, companies_to_update, metrics, quote_data,
                   financials, outcome, counts, tally, fetched, pre_db, raised,
                   paceVars, events, cmd, opt, i, k, interrupted,
                   collection_run_today, last_check_date, triggers, due>>

\* handle, lines 43-46: run_collection returns, with or without an error of
\* the commands it called, and handle returns
SchedOnce ==
    /\ pc = "s_once"
    /\ Returns
    /\ pc' = "returned"
    /\ UNCHANGED <<tech_data, runs, is_active, db, txn, companies_to_update, metrics, quote_data,
                   financials, outcome, counts, tally, fetched, pre_db, raised,
                   paceVars, events, cmd, opt, i, k, interrupted,
                   collection_run_today, last_check_date, triggers, due>>

\* handle, lines 53-71: one poll of the loop, up to the call of run_collection
SchedPoll ==
    /\ pc = "s_poll"
    /\ LET current_date == now
           current_time == time_of_day
           run_today == flag_at_poll(current_date, last_check_date,
                                     collection_run_today)
       IN  /\ collection_run_today' = run_today
           /\ last_check_date' = current_date
           /\ due' = IF current_time >= opt.target_time[1]
                     THEN due \cup {current_date} ELSE due
           /\ IF collection_is_due(current_date, current_time,
                                   opt.target_time[1], run_today)
              THEN pc' = "s_collect" /\ triggers' = Append(triggers, Trigger(FALSE))
              ELSE pc' = "s_sleep" /\ triggers' = triggers
    /\ UNCHANGED <<tech_data, runs, dataVars, paceVars, events, cmd, opt, i, k, interrupted,
                   time_of_day, last_run>>

\* a scheduler that an error of the collection stops
SchedCollect_stopping ==
    /\ pc = "s_collect"
    /\ Returns
    /\ collection_run_today' = collection_run_today
    /\ pc' = IF last_run'[1].error THEN "stopped" ELSE "s_sleep"
    /\ UNCHANGED <<tech_data, runs, is_active, db, txn, companies_to_update, metrics, quote_data,
                   financials, outcome, counts, tally, fetched, pre_db, raised,
                   paceVars, events, cmd, opt, i, k, interrupted, last_check_date,
                   triggers, due>>

\* run_collection, lines 87-109, and line 72: the collection returns, with or
\* without an error of the commands it called, and the flag is set
SchedCollect ==
    /\ pc = "s_collect"
    /\ Returns
    /\ collection_run_today' = TRUE
    /\ pc' = "s_sleep"
    /\ UNCHANGED <<tech_data, runs, is_active, db, txn, companies_to_update, metrics, quote_data,
                   financials, outcome, counts, tally, fetched, pre_db, raised,
                   paceVars, events, cmd, opt, i, k, interrupted, last_check_date,
                   triggers, due>>

\* handle, line 76: time.sleep(60)
SchedSleep ==
    /\ pc = "s_sleep"
    /\ \E watches \in 0 .. 1 : Elapse(watches)
    /\ pc' = "s_poll"
    /\ UNCHANGED <<tech_data, runs, is_active, db, txn, companies_to_update, metrics, quote_data,
                   financials, outcome, counts, tally, fetched, pre_db, raised,
                   paceVars, events, cmd, opt, i, k, interrupted,
                   collection_run_today, last_check_date, triggers, last_run,
                   due>>

\* handle, lines 78-80: KeyboardInterrupt in the loop stops the scheduler
SchedInterrupt ==
    /\ pc \in {"s_poll", "s_sleep"}
    /\ pc' = "stopped"
    /\ interrupted' = TRUE
    /\ UNCHANGED <<tech_data, runs, dataVars, paceVars, schedVars, events, cmd, opt, i, k>>

\* the companies the collect command called by run_collection selects
SchedSelected ==
    {s \in Symbols : is_active[s] /\ needs_update_today(db, s, now)}

\* collect_sp500_data.handle, lines 104-106: a KeyboardInterrupt raised while
\* the loop is at a company is caught there, and the loop is left
interrupt_absorbed(in_company_loop) == in_company_loop

\* KeyboardInterrupt while run_collection is running. Raised while the
\* collect command is at a company, it is absorbed by that command, which
\* leaves its loop; when it comes between the get_or_create of the company
\* and its save, a record that get_or_create inserted stays as it was
\* inserted (outcome notes it; the table of this specification does not
\* follow the writes of the collections). Raised anywhere else in
\* run_collection, it passes 'except Exception' and stops the scheduler
SchedInterruptCollection ==
    /\ pc = "s_collect"
    /\ \E in_company_loop \in BOOLEAN :
         /\ in_company_loop => SchedSelected # {}
         /\ IF interrupt_absorbed(in_company_loop)
            THEN /\ \E c \in SchedSelected, before_save \in BOOLEAN :
                      outcome' = IF before_save /\ get_or_create(db, c, now, now).table # db
                                 THEN "unsaved" ELSE "interrupted"
                 /\ pc' = "s_absorbed"
                 /\ interrupted' = interrupted
            ELSE /\ outcome' = outcome
                 /\ pc' = "stopped"
                 /\ interrupted' = TRUE
    /\ UNCHANGED <<tech_data, runs, is_active, db, txn, companies_to_update, metrics, quote_data,
                   financials, counts, tally, fetched, pre_db, raised,
                   paceVars, events, cmd, opt, i, k, now, time_of_day,
                   collection_run_today, last_check_date, triggers, last_run, due>>

\* collect_sp500_data.handle, lines 106-117, run_collection, lines 97-101,
\* and handle of the scheduler, lines 72-73: after the interrupt the collect
\* command writes its summary and returns, run_collection reports success
\* and returns, the flag is set and the scheduler goes on to its sleep; the
\* collection has taken a number of watches
SchedAbsorbed ==
    /\ pc = "s_absorbed"
    /\ \E watches \in 0 .. LongestCollection : Elapse(watches)
    /\ last_run' = Some([ended |-> now', error |-> FALSE])
    /\ collection_run_today' = TRUE
    /\ outcome' = ""
    /\ pc' = "s_sleep"
    /\ UNCHANGED <<tech_data, runs, is_active, db, txn, companies_to_update, metrics, quote_data,
                   financials, counts, tally, fetched, pre_db, raised,
                   paceVars, events, cmd, opt, i, k, interrupted,
                   last_check_date, triggers, due>>

SchedNext ==
    \/ SchedHandle
    \/ SchedOnce
    \/ SchedPoll
    \/ SchedCollect
    \/ SchedSleep
    \/ SchedInterrupt
    \/ SchedInterruptCollection
    \/ SchedAbsorbed

SpecSched == SchedInit /\ [][SchedNext]_vars

(* ------------------------ two runs at the same time ------------------------ *)
\* Two non-forced runs, each a worker or a collect command, work on the same
\* store on one day. Each run selects its companies once, before its loop,
\* and then updates them one after the other; the update of a company by
\* one run is a single step for the other run.

\* the company a run is at
PairCompany(r) == runs[r].companies_to_update[runs[r].i + 1]

\* the run has gone through one more company
PairAdvance(run, wrote) ==
    [run EXCEPT !.i = @ + 1,
                !.written = IF wrote THEN Append(@, run.companies_to_update[run.i + 1])
                            ELSE @,
                !.pc = IF run.i + 1 < Len(run.companies_to_update)
                       THEN "loop" ELSE "done"]

PairInit ==
    /\ now = StartDay
    /\ is_active \in Universes
    /\ db = InitialTable
    /\ runs = [r \in Runs |-> NoRun]
    /\ tech_data = NULL
    /\ txn = NULL
    /\ events = 0
    /\ cmd = "idle"
    /\ opt = NoOptions
    /\ companies_to_update = <<>>
    /\ i = 0
    /\ k = 0
    /\ pc = "idle"
    /\ metrics = NULL
    /\ quote_data = NULL
    /\ financials = NULL
    /\ outcome = ""
    /\ counts = ZeroCounts
    /\ tally = NULL
    /\ fetched = <<>>
    /\ interrupted = FALSE
    /\ pre_db = EmptyBag
    /\ raised = 0
    /\ clock = 0
    /\ total_companies = 0
    /\ delay = 0
    /\ batch_start_time = 0
    /\ start_time = 0
    /\ calls = <<>>
    /\ window_i = 0
    /\ time_of_day = 0
    /\ collection_run_today = FALSE
    /\ last_check_date = 0
    /\ triggers = <<>>
    /\ last_run = NULL
    /\ due = {}

\* what a pair of runs leaves alone: the day, and the state of the single run
PairFrame ==
    UNCHANGED <<now, is_active, txn, events, cmd, opt, companies_to_update, i, k,
                pc, metrics, quote_data, financials, outcome, counts, tally,
                fetched, interrupted, pre_db, raised, paceVars, schedVars, tech_data>>

\* sp500_worker get_companies_to_update, or the selection of collect's
\* handle: the freshness gate of the whole run, before the first company
PairSelect(r) ==
    /\ runs[r].pc = "idle"
    /\ \E command \in {"worker", "collect"} :
         LET selected == IF command = "worker"
                         THEN get_companies_to_update(is_active, db, now, FALSE,
                                                      NoLimit)
                         ELSE CollectToUpdate(is_active, db, now, FALSE, NoSymbol)
         IN  runs' = [runs EXCEPT ![r] =
                        [cmd |-> command,
                         pc |-> IF selected = <<>> THEN "done" ELSE "loop",
                         companies_to_update |-> selected, i |-> 0,
                         written |-> <<>>]]
    /\ db' = db
    /\ PairFrame

\* fetch_and_save_metrics of the worker for the company the run is at: the
\* three fetches, the merges and the save in one transaction, or a save that
\* raises and the rollback
PairWorkerCompany(r) ==
    /\ runs[r].pc = "loop" /\ runs[r].cmd = "worker"
    /\ \E sector \in Outcomes(RemoteSector(PairCompany(r))),
          quote \in Outcomes(RemoteQuote(PairCompany(r))),
          fin \in Outcomes(RemoteMetric(PairCompany(r))),
          saved \in BOOLEAN :
         LET g == get_or_create(db, PairCompany(r), now, now)
             m1 == IF sector # NULL /\ sector[1] # ""
                   THEN [g.obj EXCEPT !.sector = sector[1]] ELSE g.obj
             m2 == IF quote # NULL THEN update_price_data(m1, quote[1]) ELSE m1
             m3 == IF fin # NULL THEN update_financial_metrics(m2, fin[1]) ELSE m2
             m4 == calculate_price_changes(m3, g.table, now)
         IN  /\ db' = IF saved THEN save(g.table, m4, now) ELSE db
             /\ runs' = [runs EXCEPT ![r] = PairAdvance(@, saved)]
    /\ PairFrame

\* fetch_company_data of collect for the company the run is at
PairCollectCompany(r) ==
    /\ runs[r].pc = "loop" /\ runs[r].cmd = "collect"
    /\ \E quote \in Outcomes(RemoteQuote(PairCompany(r))),
          fin \in Outcomes(RemoteMetric(PairCompany(r))),
          down \in IndicatorOutages, saved \in BOOLEAN :
         IF quote = NULL \/ fin = NULL
         THEN db' = db /\ runs' = [runs EXCEPT ![r] = PairAdvance(@, FALSE)]
         ELSE LET g == get_or_create(db, PairCompany(r), now, now)
                  body == RemoteIndicator(PairCompany(r))
                  ind == [p \in PeriodSet |-> IF p \in down THEN <<>> ELSE body[p]]
                  m == CollectApplyIndicators(
                           CollectApplyMetrics(CollectApplyQuote(g.obj, quote[1]),
                                               fin[1]), ind)
              IN  IF CollectMetricsRaise(fin[1]) \/ ~saved
                  THEN /\ db' = g.table
                       /\ runs' = [runs EXCEPT ![r] = PairAdvance(@, FALSE)]
                  ELSE /\ db' = save(g.table, m, now)
                       /\ runs' = [runs EXCEPT ![r] = PairAdvance(@, TRUE)]
    /\ PairFrame

PairNext ==
    \/ \E r \in Runs : PairSelect(r)
    \/ \E r \in Runs : PairWorkerCompany(r)
    \/ \E r \in Runs : PairCollectCompany(r)

SpecPair == PairInit /\ [][PairNext]_vars

(* ------------------- one update, over drawn responses --------------------- *)
\* The field merges of the two commands, applied to one company on one day:
\* the stored rows, the quote response and the fundamentals response are
\* drawn from the sets below, and so is the outcome of each indicator request
\* of collect.

\* the company that is updated
CalcCompany == "A"

\* /quote bodies: the two companies' quotes; previous close 50 over close 45;
\* previous close 0; close 110; a close of 0; no 'c'; no 'pc'
CalcQuotes ==
    { RemoteQuote("A"),
      [c |-> 45, h |-> 50, l |-> 44, o |-> 50, pc |-> 50],
      RemoteQuote("B"),
      [c |-> 110, h |-> 111, l |-> 99, o |-> 100, pc |-> 100],
      [c |-> 0, h |-> 0, l |-> 0, o |-> 0, pc |-> 50],
      [h |-> 192, l |-> 184, o |-> 186, pc |-> 185],
      [c |-> 190, h |-> 192, l |-> 184, o |-> 186] }

\* /stock/metric bodies: the two companies' bodies; zero and null values; a
\* body without 'metric'
CalcMetricBodies ==
    { RemoteMetric("A"),
      RemoteMetric("B"),
      [metric |-> [marketCapitalization |-> Num(0),
                   peBasicExclExtraTTM |-> Num(31),
                   pbAnnual |-> NULL,
                   dividendYieldIndicatedAnnual |-> Num(0)]],
      [symbol |-> CalcCompany] }

\* a stored row without a close
UnpricedRow(company, d) == EmptyRow(company, d, d)

\* the earlier rows of the company: none; a close 40 days ago; closes 30 and
\* 29 days ago; a row without a close 35 days ago and a close 50 days ago; a
\* close of 0 forty days ago; closes 365 and 40 days ago; a close of 0 four
\* hundred days ago; closes 366 and 364 days ago
CalcHistories ==
    { {},
      {HistoryRow(CalcCompany, StartDay - 40, 100)},
      {HistoryRow(CalcCompany, StartDay - 30, 100),
       HistoryRow(CalcCompany, StartDay - 29, 105)},
      {UnpricedRow(CalcCompany, StartDay - 35),
       HistoryRow(CalcCompany, StartDay - 50, 90)},
      {HistoryRow(CalcCompany, StartDay - 40, 0)},
      {HistoryRow(CalcCompany, StartDay - 365, 80),
       HistoryRow(CalcCompany, StartDay - 40, 100)},
      {HistoryRow(CalcCompany, StartDay - 400, 0)},
      {HistoryRow(CalcCompany, StartDay - 366, 80),
       HistoryRow(CalcCompany, StartDay - 364, 120)} }

\* the row an earlier run of the day has filled
FilledRow ==
    [EmptyRow(CalcCompany, StartDay, StartDay) EXCEPT
        !.open_price = Num(186), !.high_price = Num(192), !.low_price = Num(184),
        !.close_price = Num(190),
        !.daily_change = Num(5), !.daily_change_percent = Num(27027),
        !.monthly_change = Num(90), !.monthly_change_percent = Num(900000),
        !.yearly_change = Num(110), !.yearly_change_percent = Num(1375000),
        !.sector = "Technology", !.market_cap = Num(2500000),
        !.pe_ratio = Num(28), !.price_to_book = Num(7), !.dividend_yield = Num(1)]

\* today's row of the company before the update: none, or the filled one
CalcTodays == { {}, {FilledRow} }

CalcInit ==
    /\ now = StartDay
    /\ is_active = [s \in Symbols |-> TRUE]
    /\ \E history \in CalcHistories, todays \in CalcTodays :
         db = SetToBag(history \cup todays)
    /\ cmd \in {"worker", "collect"}
    /\ pc = "k_start"
    /\ runs = [r \in Runs |-> NoRun]
    /\ tech_data = NULL
    /\ txn = NULL
    /\ events = 0
    /\ opt = NoOptions
    /\ companies_to_update = <<CalcCompany>>
    /\ i = 0
    /\ k = 0
    /\ metrics = NULL
    /\ quote_data = NULL
    /\ financials = NULL
    /\ outcome = ""
    /\ counts = ZeroCounts
    /\ tally = NULL
    /\ fetched = <<>>
    /\ interrupted = FALSE
    /\ pre_db = EmptyBag
    /\ raised = 0
    /\ clock = 0
    /\ total_companies = 0
    /\ delay = 0
    /\ batch_start_time = 0
    /\ start_time = 0
    /\ calls = <<>>
    /\ window_i = 0
    /\ time_of_day = 0
    /\ collection_run_today = FALSE
    /\ last_check_date = 0
    /\ triggers = <<>>
    /\ last_run = NULL
    /\ due = {}

\* what the update of one company leaves alone
CalcFrame ==
    UNCHANGED <<now, is_active, events, cmd, opt, companies_to_update, i, k, tally,
                fetched, interrupted, raised, paceVars, schedVars, runs>>

\* the responses arrive: each request fails or returns one of the bodies
CalcResponses ==
    /\ pc = "k_start"
    /\ quote_data' \in {NULL} \cup {Some(q) : q \in CalcQuotes}
    /\ financials' \in {NULL} \cup {Some(f) : f \in CalcMetricBodies}
    /\ pre_db' = db
    /\ pc' = IF cmd = "worker" THEN "k_w_price" ELSE "k_c_create"
    /\ UNCHANGED <<tech_data, db, txn, metrics, outcome, counts>>
    /\ CalcFrame

\* worker, fetch_and_save_metrics lines 137-154: get_or_create in the
\* transaction, and update_price_data if the quote arrived
CalcWorkerPrice ==
    /\ pc = "k_w_price"
    /\ LET g == get_or_create(db, CalcCompany, now, now)
       IN  /\ txn' = Some(g.table)
           /\ metrics' = IF quote_data # NULL
                         THEN Some(update_price_data(g.obj, quote_data[1]))
                         ELSE Some(g.obj)
    /\ pc' = "k_w_fin"
    /\ UNCHANGED <<tech_data, db, quote_data, financials, outcome, counts, pre_db>>
    /\ CalcFrame

\* worker, lines 157-159: update_financial_metrics if the fundamentals arrived
CalcWorkerFinancials ==
    /\ pc = "k_w_fin"
    /\ metrics' = IF financials # NULL
                  THEN Some(update_financial_metrics(metrics[1], financials[1]))
                  ELSE metrics
    /\ pc' = "k_w_changes"
    /\ UNCHANGED <<tech_data, db, txn, quote_data, financials, outcome, counts, pre_db>>
    /\ CalcFrame

\* worker, line 162: calculate_price_changes
CalcWorkerChanges ==
    /\ pc = "k_w_changes"
    /\ metrics' = Some(calculate_price_changes(metrics[1], View, now))
    /\ pc' = "k_w_save"
    /\ UNCHANGED <<tech_data, db, txn, quote_data, financials, outcome, counts, pre_db>>
    /\ CalcFrame

\* worker, lines 164-165 and handle line 81: save, commit, successful += 1
CalcWorkerSave ==
    /\ pc = "k_w_save"
    /\ db' = save(View, metrics[1], now)
    /\ txn' = NULL
    /\ outcome' = "saved"
    /\ counts' = [counts EXCEPT !.successful = @ + 1, !.processed = @ + 1]
    /\ pc' = "k_done"
    /\ UNCHANGED <<tech_data, metrics, quote_data, financials, pre_db>>
    /\ CalcFrame

\* collect, fetch_company_data lines 129-163: a request that failed returns
\* False; else get_or_create, which commits, and the quote fields are set
CalcCollectQuote ==
    /\ pc = "k_c_create"
    /\ IF quote_data = NULL \/ financials = NULL
       THEN /\ outcome' = "request_failed"
            /\ pc' = "k_done"
            /\ UNCHANGED <<db, metrics>>
       ELSE LET g == get_or_create(db, CalcCompany, now, now)
            IN  /\ db' = g.table
                /\ metrics' = Some(CollectApplyQuote(g.obj, quote_data[1]))
                /\ outcome' = ""
                /\ pc' = "k_c_metrics"
    /\ UNCHANGED <<tech_data, txn, quote_data, financials, counts, pre_db>>
    /\ CalcFrame

\* collect, lines 165-176: the metric fields are set, or the TypeError
\* returns False
CalcCollectMetrics ==
    /\ pc = "k_c_metrics"
    /\ IF CollectMetricsRaise(financials[1])
       THEN /\ outcome' = "unexpected"
            /\ UNCHANGED <<db, metrics, counts>>
            /\ pc' = "k_done"
       ELSE /\ metrics' = Some(CollectApplyMetrics(metrics[1], financials[1]))
            /\ pc' = "k_c_ma"
            /\ UNCHANGED <<db, outcome, counts>>
    /\ UNCHANGED <<tech_data, txn, quote_data, financials, pre_db>>
    /\ CalcFrame

\* collect, lines 178-212: the four indicator requests, each of which fails,
\* returns an empty series or returns the series; then save, True, and
\* handle's processed += 1
CalcCollectIndicators ==
    /\ pc = "k_c_ma"
    /\ \E outcomes \in [PeriodSet -> {"failed", "empty", "series"}] :
         LET body == RemoteIndicator(CalcCompany)
             responses == [p \in PeriodSet |->
                             IF outcomes[p] = "failed" THEN NULL
                             ELSE IF outcomes[p] = "empty" THEN Some(<<>>)
                             ELSE Some(body[p])]
             m == CollectApplyIndicators(metrics[1], Sma(responses))
         IN  /\ tech_data' = Some(responses)
             /\ metrics' = Some(m)
             /\ db' = save(db, m, now)
    /\ outcome' = "saved"
    /\ counts' = [counts EXCEPT !.processed = @ + 1]
    /\ pc' = "k_done"
    /\ UNCHANGED <<txn, quote_data, financials, pre_db>>
    /\ CalcFrame

CalcNext ==
    \/ CalcResponses
    \/ CalcWorkerPrice
    \/ CalcWorkerFinancials
    \/ CalcWorkerChanges
    \/ CalcWorkerSave
    \/ CalcCollectQuote
    \/ CalcCollectMetrics
    \/ CalcCollectIndicators

SpecCalc == CalcInit /\ [][CalcNext]_vars

(* ------------------------------- claims ------------------------------- *)
\* the elements of a sequence
Range(seq) == {seq[n] : n \in 1..Len(seq)}

\* C1: after any sequence of worker and collect runs, on any days, forced or
\* not, the store holds at most one CompanyMetrics row for every
\* (company, date), in the committed table and in the one an open transaction
\* works on; a second, non-forced run of the day leaves exactly one row.
C1_OneRowPerCompanyDate ==
    /\ \A r \in BagToSet(db) : RowCount(db, r.company, r.date) = 1
    /\ \A r \in BagToSet(View) : RowCount(View, r.company, r.date) = 1

\* a non-forced run with a configured key that finds nothing to update on the
\* first day, because an earlier run of the day wrote the row of A
C1_Witness ==
    /\ pc = "done" /\ opt.api_key = "key" /\ ~opt.force
    /\ companies_to_update = <<>>
    /\ now = StartDay /\ is_active["A"]
    /\ RowCount(db, "A", now) = 1

\* C3: needs_update_today(symbol) is True exactly when there is no row for
\* (symbol, today) or the row's last_updated is not today; which fields of
\* the row are filled plays no part.
C3_GateIsFreshness ==
    \A s \in Symbols :
        needs_update_today(db, s, now)
            <=> \/ RowsFor(db, s, now) = {}
                \/ \E r \in RowsFor(db, s, now) : r.last_updated # now

\* a worker run has saved a row today that has no close price, and the gate
\* says no
C3_Witness ==
    /\ cmd = "worker" /\ pc = "done" /\ tally # NULL /\ tally[1].successful > 0
    /\ \E r \in RowsFor(db, "A", now) : r.last_updated = now /\ r.close_price = NULL
    /\ ~needs_update_today(db, "A", now)

\* the companies a forced run has to select: the active ones, in collect
\* those with the requested symbol, in the worker the first max-companies
ForcedUniverse ==
    LET act == ActiveCompanies(is_active)
        n == IF opt.max_companies = NoLimit \/ opt.max_companies[1] > Len(act)
             THEN Len(act) ELSE opt.max_companies[1]
    IN  IF cmd = "worker" THEN {act[j] : j \in 1..n}
        ELSE {s \in Range(act) : opt.symbol \in {NoSymbol, s}}

\* C4: with force every company of the (restricted) active universe is
\* selected, fresh or not, and a run that is not interrupted fetches every
\* company it selected.
C4_ForceBypassesGate ==
    /\ (opt.force /\ opt.api_key = "key" /\ pc \in {"w_selected", "c_selected", "done"})
           => ForcedUniverse \subseteq Range(companies_to_update)
    /\ (pc = "done" /\ ~interrupted) => fetched = companies_to_update

\* a forced run has selected a company whose row was written today
C4_Witness ==
    /\ opt.force /\ pc \in {"w_selected", "c_selected"}
    /\ \E s \in Range(companies_to_update) : ~needs_update_today(db, s, now)

\* the valuation fields of a row
Valuation(r) == <<r.market_cap, r.pe_ratio, r.price_to_book, r.dividend_yield>>

\* the valuation fields the company had on (company, d) when it was started
PriorValuation(company, d) ==
    IF RowsFor(pre_db, company, d) = {} THEN <<NULL, NULL, NULL, NULL>>
    ELSE Valuation(CHOOSE r \in RowsFor(pre_db, company, d) : TRUE)

\* the step that ends the processing of a company whose quote arrived and
\* whose fundamentals call failed (the save itself did not raise)
QuoteOnlyCompanyEnds ==
    /\ pc \in {"w_save", "c_fin"}
    /\ pc' \in {"w_report", "c_delay"}
    /\ quote_data' # NULL /\ financials' = NULL
    /\ outcome' # "save_raised"

\* C7: when the quote fetch succeeds and the fundamentals fetch fails, the
\* row for (company, today) is stored with the price fields of the quote and
\* with the valuation fields as they were (unset on a new row), in the
\* worker and in the collect command.
C7_QuoteOnlyIsPersisted ==
    [][ QuoteOnlyCompanyEnds =>
          LET company == IF cmd = "worker" THEN WorkerCompany ELSE CollectCompany
              d == IF metrics # NULL THEN metrics[1].date ELSE now
              q == quote_data'[1]
          IN  \E r \in RowsFor(db', company, d) :
                 /\ r.close_price = Num(q.c) /\ r.high_price = Num(q.h)
                 /\ r.low_price = Num(q.l) /\ r.open_price = Num(q.o)
                 /\ Valuation(r) = PriorValuation(company, d) ]_vars

\* C8: once an interrupt was delivered while a company was processed, the
\* run issues no call for a further company, and the interrupt itself leaves
\* the committed rows as they are.
C8_NoFetchAfterInterrupt ==
    [][ /\ (~interrupted /\ interrupted') => db' = db
        /\ (interrupted /\ interrupted') => fetched' = fetched ]_vars

\* C9: a run that selected at least one company and has ended has printed
\* its final tally, interrupted or not.
C9_TallyAlwaysPrinted ==
    (pc \in {"done", "aborted"} /\ companies_to_update # <<>>) => tally # NULL

\* C10: in the worker, between the start of a company and the end of its
\* save no step changes the committed table, except the commit, which stores
\* the fully merged object over the table the company started from.
C10_CompanyUpdateIsAtomic ==
    [][ (cmd = "worker" /\ pc \in {"w_company", "w_sector", "w_quote", "w_fin", "w_save"})
          => \/ db' = db
             \/ pc = "w_save" /\ pc' = "w_report"
                   /\ db' = save(pre_db, metrics[1], now) ]_vars

\* the worker was interrupted inside the first company, A, after a call was
\* made for it, and the store has no row for A today
C10_Witness ==
    /\ cmd = "worker" /\ interrupted /\ pc = "w_ratelimit"
    /\ fetched = <<"A">>
    /\ RowsFor(db, "A", now) = {}

\* C2: a run of the collect command with batch size 60, or of the worker with
\* batch size 10 and delay 1 s, never issues more than 60 calls within 60
\* consecutive seconds: of any 61 calls the last is at least 60 s after the
\* first.
C2_QuotaRespected ==
    ( \/ cmd = "collect" /\ opt.batch_size = CollectBatchSize
      \/ cmd = "worker" /\ opt.batch_size = DefaultBatchSize
                        /\ delay = DefaultDelay * Second )
    => \A a, b \in 1..Len(calls) :
          b - a >= QuotaCalls => calls[b] - calls[a] >= QuotaSeconds * Second

\* C5: in the worker the next batch starts, and the loop of the last batch
\* ends, at least B*D + 2 seconds after the batch started (for a run the
\* operator does not end during the rate-limit sleep).
C5_BatchFloor ==
    [][ (cmd = "worker" /\ pc = "pw_ratelimit" /\ pc' \in {"pw_company", "p_done"})
          => clock' - batch_start_time >= opt.batch_size * delay + 2 * Second ]_vars

\* the last batch was partial, its company was interrupted, and the loop
\* ended exactly B*D + 2 seconds after the batch started
C5_Witness ==
    /\ cmd = "worker" /\ pc = "p_done" /\ interrupted
    /\ total_companies % opt.batch_size # 0
    /\ delay > 0
    /\ clock - batch_start_time = opt.batch_size * delay + 2 * Second

\* C6: in the collect command, at an index i > 0 that is a multiple of
\* batch_size the run sleeps exactly 60 - elapsed seconds when elapsed < 60
\* and not at all otherwise, then the window starts anew, so that window
\* starts are at least 60 s apart; at any other index nothing happens; and
\* at most batch_size companies are fetched within one window.
C6_WindowPolicy ==
    /\ [][ (cmd = "collect" /\ pc = "pc_window" /\ pc' = "pc_fetch") =>
             LET elapsed == clock - start_time
             IN  IF i > 0 /\ i % opt.batch_size = 0
                 THEN /\ elapsed < 60 * Second => clock' - clock = 60 * Second - elapsed
                      /\ elapsed >= 60 * Second => clock' = clock
                      /\ start_time' = clock'
                      /\ start_time' - start_time >= 60 * Second
                 ELSE clock' = clock /\ start_time' = start_time ]_vars
    /\ [](cmd = "collect" =>
             i - window_i + (IF pc = "pc_fetch" THEN 1 ELSE 0) <= opt.batch_size)

\* the third window of a collect run starts more than 120 s into the run:
\* at one of the two window checks 60 s or more had elapsed and the run did
\* not sleep
C6_Witness ==
    /\ cmd = "collect" /\ pc = "pc_fetch"
    /\ window_i = 2 * opt.batch_size /\ i = window_i
    /\ start_time = clock
    /\ clock > 2 * 60 * Second

\* the company the run is at
CurrentCompany == IF cmd = "worker" THEN WorkerCompany ELSE CollectCompany

\* the committed table as it was when the company the run is at was started
TableBefore == IF pc \in {"w_company", "c_quote"} THEN db ELSE pre_db

\* the step reports the company the run is at as failed, or an interrupt
\* makes the run abandon it
FailsOrAbandons ==
    \/ outcome = "" /\ outcome' \in {"save_raised", "request_failed", "unexpected"}
    \/ pc \in {"w_company", "w_sector", "w_quote", "w_fin", "w_save"} /\ pc' = "w_ratelimit"
    \/ pc \in {"c_quote", "c_fin", "c_ma", "c_save"} /\ pc' = "done"

\* C11: a company that needed an update when it was started and that the run
\* reports as failed, or abandons on an interrupt, still needs an update
\* afterwards: the attempt leaves no row for (company, today) written today,
\* so the next non-forced run of the day selects it again.
C11_FailedIsRetried ==
    [][ (FailsOrAbandons /\ needs_update_today(TableBefore, CurrentCompany, now))
          => needs_update_today(db', CurrentCompany, now') ]_vars

LoopTriggers == {n \in DOMAIN triggers : ~triggers[n].once}

\* C13: the collections the polling loop starts fall on different dates,
\* never on a Saturday or a Sunday, and each at or after the target time.
C13_AtMostOncePerWeekday ==
    /\ \A m, n \in LoopTriggers : triggers[m].date = triggers[n].date => m = n
    /\ \A n \in LoopTriggers :
         /\ weekday(triggers[n].date) < 5
         /\ triggers[n].time >= opt.target_time[1]

\* the loop has polled on a Saturday after the target time and has started
\* collections on the Friday before it and on the Monday after it
C13_Witness ==
    /\ \E d \in due : weekday(d) = 5
    /\ \E m, n \in LoopTriggers :
         /\ weekday(triggers[m].date) = 4
         /\ triggers[n].date = triggers[m].date + 3

\* C14: for every weekday on which a poll of the loop found the time at or
\* after the target time, a collection was started on that day.
C14_TriggeredWhenDue ==
    \A d \in due :
        weekday(d) < 5 => \E n \in LoopTriggers : triggers[n].date = d

\* the scheduler started a collection on the day it was started; that
\* collection failed and returned on the next day, a weekday, after the
\* target time, and the next poll has started that day's collection
C14_Witness ==
    /\ pc = "s_collect"
    /\ Len(triggers) = 2
    /\ triggers[1].date = triggers[2].date - 1
    /\ triggers[2].date = now
    /\ last_run = Some([ended |-> now, error |-> TRUE])

\* C15: of two non-forced runs at work on the same day, no company is
\* fetched and written by both, and the store holds at most one record for
\* each company and that day.
C15_CheckAndWriteAreOneSection ==
    \A s \in Symbols :
        /\ ~(s \in Range(runs[1].written) /\ s \in Range(runs[2].written))
        /\ RowCount(db, s, now) <= 1

\* the half of C15 that the uniqueness of (company, date) gives
C15_OneRowPerCompanyDate == \A s \in Symbols : RowCount(db, s, now) <= 1

\* the object of the update as get_or_create returned it
CalcBefore ==
    LET rows == RowsFor(pre_db, CalcCompany, now)
    IN  IF rows = {} THEN EmptyRow(CalcCompany, now, now) ELSE CHOOSE r \in rows : TRUE

\* p is n / d * 100 to the nearest 1/10000
IsPercentOf(p, n, d) ==
    LET e == p * d - n * 1000000
        a == IF e < 0 THEN 0 - e ELSE e
        b == IF d < 0 THEN 0 - d ELSE d
    IN  2 * a <= b

\* the worker has applied a quote that carries a previous close
WorkerAppliedPreviousClose ==
    /\ cmd = "worker" /\ pc = "k_w_fin"
    /\ quote_data # NULL /\ "pc" \in DOMAIN quote_data[1]

\* daily_change and daily_change_percent are those of the close and the
\* previous close
DailyFieldsFollow ==
    LET m == metrics[1]
        previous_close == quote_data[1].pc
        close == m.close_price[1]
    IN  /\ m.daily_change = Num(close - previous_close)
        /\ previous_close # 0 =>
             /\ m.daily_change_percent # NULL
             /\ IsPercentOf(m.daily_change_percent[1], close - previous_close,
                            previous_close)
        /\ (close = 45 /\ previous_close = 50) =>
             m.daily_change = Num(-5) /\ m.daily_change_percent = Num(-100000)
        /\ (close = 190 /\ previous_close = 185) =>
             m.daily_change = Num(5) /\ m.daily_change_percent = Num(27027)

\* C16 as stated: whenever the worker applies a quote with a previous close
\* to a record that has a close price, daily_change is close - pc and, for
\* pc other than zero, daily_change_percent is daily_change / pc * 100.
C16_DailyChange ==
    (WorkerAppliedPreviousClose /\ metrics[1].close_price # NULL)
        => DailyFieldsFollow

\* C16, amended: the same when the record's close price is not zero either
\* (update_price_data tests the truth value of close_price).
C16_DailyChangeOfNonZeroClose ==
    (WorkerAppliedPreviousClose /\ Truthy(metrics[1].close_price))
        => DailyFieldsFollow

\* the worker has applied the quote with close 45 and previous close 50 to a
\* new record: daily_change -5, daily_change_percent -10.0
C16_Witness ==
    /\ WorkerAppliedPreviousClose
    /\ RowsFor(pre_db, CalcCompany, now) = {}
    /\ metrics[1].close_price = Num(45) /\ quote_data[1].pc = 50
    /\ metrics[1].daily_change = Num(-5)
    /\ metrics[1].daily_change_percent = Num(-100000)

\* the record of the company and the day in the store
CalcStored == CHOOSE r \in RowsFor(db, CalcCompany, now) : TRUE

\* the worker has saved an update whose quote had previous close 0
WorkerSavedZeroPreviousClose ==
    /\ cmd = "worker" /\ pc = "k_done" /\ outcome = "saved"
    /\ quote_data # NULL /\ "pc" \in DOMAIN quote_data[1]
    /\ quote_data[1].pc = 0

\* C17: after a worker update whose quote has previous close 0 the stored
\* record of the company and the day has no daily_change_percent, also when
\* an earlier run of the day had filled the record.
C17_NoPercentOfZeroPreviousClose ==
    WorkerSavedZeroPreviousClose => CalcStored.daily_change_percent = NULL

\* the part of C17 that holds: the same for a record the update created
C17_NoPercentOnNewRecord ==
    (WorkerSavedZeroPreviousClose /\ RowsFor(pre_db, CalcCompany, now) = {})
        => CalcStored.daily_change_percent = NULL

\* the records of the company dated today - L or earlier that have a close
LookbackCandidates(L) ==
    {r \in BagToSet(pre_db) :
        r.company = CalcCompany /\ r.date <= now - L /\ r.close_price # NULL}

\* the change and the percentage of the object follow from the candidate
\* with the greatest date; with no candidate both are as they were. For a
\* candidate whose close is 0 the percentage is as it was, and the change is
\* set if zero_sets_change and as it was otherwise
LookbackFields(L, change_field, percent_field, zero_sets_change) ==
    LET m == metrics[1]
        candidates == LookbackCandidates(L)
    IN  IF candidates = {}
        THEN /\ m[change_field] = CalcBefore[change_field]
             /\ m[percent_field] = CalcBefore[percent_field]
        ELSE LET r == CHOOSE c \in candidates : \A o \in candidates : o.date <= c.date
                 base == r.close_price[1]
                 change == m.close_price[1] - base
             IN  IF base # 0
                 THEN /\ m[change_field] = Num(change)
                      /\ m[percent_field] # NULL
                      /\ IsPercentOf(m[percent_field][1], change, base)
                 ELSE /\ m[percent_field] = CalcBefore[percent_field]
                      /\ m[change_field] = IF zero_sets_change THEN Num(change)
                                           ELSE CalcBefore[change_field]

\* the worker has run calculate_price_changes on an object with a close
WorkerCalculatedChanges ==
    cmd = "worker" /\ pc = "k_w_save" /\ Truthy(metrics[1].close_price)

\* closes 100 forty days ago and 110 today give 10 and 10.0
LookbackExample ==
    (/\ LookbackCandidates(30) = {HistoryRow(CalcCompany, now - 40, 100)}
     /\ metrics[1].close_price = Num(110))
        => /\ metrics[1].monthly_change = Num(10)
           /\ metrics[1].monthly_change_percent = Num(100000)

\* C18: for the lookbacks of 30 and 365 days calculate_price_changes takes
\* the record with the greatest date at most today - L that has a close; the
\* change is today's close minus that close, the percentage is
\* change / that close * 100 unless that close is zero; with no such record
\* the fields are not set.
C18_Lookback ==
    WorkerCalculatedChanges =>
        /\ LookbackFields(30, "monthly_change", "monthly_change_percent", TRUE)
        /\ LookbackFields(365, "yearly_change", "yearly_change_percent", TRUE)
        /\ LookbackExample

\* what holds in place of C18: a record with close 0 sets neither field
C18_LookbackSkipsZeroClose ==
    WorkerCalculatedChanges =>
        /\ LookbackFields(30, "monthly_change", "monthly_change_percent", FALSE)
        /\ LookbackFields(365, "yearly_change", "yearly_change_percent", FALSE)
        /\ LookbackExample

\* the monthly and yearly fields of a record
DerivedFields(m) ==
    <<m.monthly_change, m.monthly_change_percent, m.yearly_change,
      m.yearly_change_percent>>

\* C19: when the record has no close for today (null, or 0, which
\* calculate_price_changes treats alike) the worker leaves the monthly and
\* yearly change fields as they were, and the record is still saved and
\* counted as successful.
C19_AbsentCloseSkipsChanges ==
    (cmd = "worker" /\ pc \in {"k_w_save", "k_done"}
       /\ ~Truthy(metrics[1].close_price))
        => /\ DerivedFields(metrics[1]) = DerivedFields(CalcBefore)
           /\ pc = "k_done" =>
                /\ outcome = "saved"
                /\ counts.successful = 1 /\ counts.failed = 0
                /\ CalcStored = [metrics[1] EXCEPT !.last_updated = now]

\* a worker update whose quote request failed has created and saved today's
\* record without a close, although an earlier record has one
C19_Witness ==
    /\ cmd = "worker" /\ pc = "k_done" /\ outcome = "saved"
    /\ quote_data = NULL
    /\ RowsFor(pre_db, CalcCompany, now) = {}
    /\ LookbackCandidates(30) # {}
    /\ CalcStored.close_price = NULL
    /\ DerivedFields(CalcStored) = <<NULL, NULL, NULL, NULL>>
    /\ counts.successful = 1

\* the fields of the record and the keys of the response they come from
ValuationKeys ==
    [market_cap |-> "marketCapitalization", pe_ratio |-> "peBasicExclExtraTTM",
     price_to_book |-> "pbAnnual", dividend_yield |-> "dividendYieldIndicatedAnnual"]

\* a valuation field of the object is the value of its key, market cap times
\* 1,000,000 truncated (the response value is written in tenths of a unit),
\* if the key is there with a value that is neither null nor zero, and is as
\* it was otherwise
ValuationFieldFollows(field) ==
    LET m == metrics[1]
        metric == financials[1].metric
        key == ValuationKeys[field]
    IN  IF key \in DOMAIN metric /\ metric[key] # NULL /\ metric[key][1] # 0
        THEN m[field] = IF field = "market_cap" THEN Num(metric[key][1] \div 10)
                        ELSE metric[key]
        ELSE m[field] = CalcBefore[field]

\* the fundamentals response has been applied, or has made the update fail
AppliedFundamentals ==
    /\ financials # NULL /\ "metric" \in DOMAIN financials[1]
    /\ \/ cmd = "worker" /\ pc \in {"k_w_changes", "k_w_save", "k_done"}
       \/ cmd = "collect" /\ quote_data # NULL /\ pc = "k_done"

\* C20: in the worker and in collect, market cap is the response value times
\* 1,000,000 truncated, each of the four valuation fields is copied only from
\* a key with a non-null, non-zero value, and a null or zero value leaves the
\* field as it was and does not make the company fail.
C20_ValuationFields ==
    AppliedFundamentals =>
        /\ \A field \in DOMAIN ValuationKeys : ValuationFieldFollows(field)
        /\ pc = "k_done" => outcome = "saved"

\* the part of C20 that holds: the same for the worker alone
C20_WorkerValuationFields ==
    (AppliedFundamentals /\ cmd = "worker") =>
        /\ \A field \in DOMAIN ValuationKeys : ValuationFieldFollows(field)
        /\ pc = "k_done" => outcome = "saved"
        /\ financials[1].metric = RemoteMetric("A").metric
             => metrics[1].market_cap = Num(2500000)

\* the moving-average field of each period
MAField == (20 :> "ma_20") @@ (50 :> "ma_50") @@ (100 :> "ma_100") @@ (200 :> "ma_200")

\* C21: once collect has made its four moving-average calls, the record is
\* saved whatever their outcomes, and for each period the stored field is the
\* last value of the series if the call delivered a non-empty one, and is as
\* it was if the call failed or delivered an empty series, whatever the
\* outcomes of the other periods.
C21_MovingAverages ==
    (cmd = "collect" /\ tech_data # NULL) =>
        /\ pc = "k_done" /\ outcome = "saved" /\ counts.processed = 1
        /\ CalcStored = [metrics[1] EXCEPT !.last_updated = now]
        /\ \A p \in PeriodSet :
             LET response == tech_data[1][p]
                 series == RemoteIndicator(CalcCompany)[p]
             IN  IF response # NULL /\ response[1] # <<>>
                 THEN /\ response[1] = series
                      /\ CalcStored[MAField[p]] = Num(series[Len(series)])
                 ELSE CalcStored[MAField[p]] = CalcBefore[MAField[p]]

\* the call for 20 days raised, the one for 50 days delivered an empty
\* series, and the record is saved with the averages of 100 and 200 days
C21_Witness ==
    /\ cmd = "collect" /\ pc = "k_done" /\ outcome = "saved"
    /\ tech_data # NULL
    /\ tech_data[1][20] = NULL /\ tech_data[1][50] = Some(<<>>)
    /\ CalcStored.ma_20 = NULL /\ CalcStored.ma_50 = NULL
    /\ CalcStored.ma_100 = Num(200) /\ CalcStored.ma_200 = Num(300)

\* the step of handle that starts a run
HandleStep == WorkerHandle \/ CollectHandle

\* the key of the run that starts is absent or empty, or "demo" in the worker
KeyMissing ==
    \/ opt'.api_key \in {NoKey, ""}
    \/ cmd' = "worker" /\ opt'.api_key = "demo"

\* C22: a run whose API key is not configured ends in handle: it selects no
\* company, issues no call, and leaves the records as they are.
C22_NoRunWithoutKey ==
    [][ (HandleStep /\ KeyMissing)
          => /\ pc' = "done" /\ tally' = NULL
             /\ companies_to_update' = <<>> /\ fetched' = <<>>
             /\ db' = db /\ txn' = NULL ]_vars

\* a worker run with the key "demo" has ended although company A is active
\* and has no record of today
C22_Witness ==
    /\ cmd = "worker" /\ pc = "done" /\ opt.api_key = "demo"
    /\ is_active["A"] /\ needs_update_today(db, "A", now)
    /\ companies_to_update = <<>> /\ fetched = <<>>

\* C23: the companies a run selects are active, in collect they have the
\* requested symbol if one is given, and unless the run is forced the gate
\* says they need an update; the run fetches only companies it selected;
\* and at the moment a non-forced run has issued the first call for a
\* company, the company has no record updated today.
C23_FetchedAreActiveAndDue ==
    /\ pc \in {"w_selected", "c_selected"} =>
         \A s \in Range(companies_to_update) :
             /\ is_active[s]
             /\ (cmd = "collect" /\ opt.symbol \notin {NoSymbol, ""}) => s = opt.symbol
             /\ opt.force \/ needs_update_today(db, s, now)
    /\ Range(fetched) \subseteq Range(companies_to_update)
    /\ \A s \in Range(fetched) : is_active[s]
    /\ (~opt.force /\ pc \in {"w_quote", "w_fin", "w_save"})
           => needs_update_today(db, WorkerCompany, now)
    /\ (~opt.force /\ pc = "c_fin") => needs_update_today(db, CollectCompany, now)

\* a non-forced run has ended that fetched B and not A, both active, A
\* having been updated earlier in the day
C23_Witness ==
    /\ pc = "done" /\ ~interrupted /\ ~opt.force
    /\ is_active["A"] /\ is_active["B"]
    /\ fetched = <<"B">>
    /\ \E r \in RowsFor(db, "A", now) : r.last_updated = now /\ r.close_price # NULL

\* the active companies in symbol order that pass the gate of a run
PassedGate(force) ==
    SelectSeq(SymbolOrder,
              LAMBDA s : is_active[s] /\ (force \/ needs_update_today(db, s, now)))

\* the first n elements of a sequence
FirstN(seq, n) == [j \in 1..(IF n < Len(seq) THEN n ELSE Len(seq)) |-> seq[j]]

\* a worker run with a configured key is started with max-companies given
WorkerHandleWithLimit ==
    /\ WorkerHandle
    /\ key_configured("worker", opt'.api_key)
    /\ opt'.max_companies # NoLimit

\* C24: a worker run given max-companies N selects the first N, in symbol
\* order, of the companies that pass the gate, for every N including 0.
C24_CapAfterGate ==
    [][ WorkerHandleWithLimit
          => companies_to_update' = FirstN(PassedGate(opt'.force), opt'.max_companies[1]) ]_vars

\* C24 for N of at least 1: the selection is the first N of the companies
\* that pass the gate.
C24_CapOfPositiveN ==
    [][ (WorkerHandleWithLimit /\ opt'.max_companies[1] >= 1)
          => companies_to_update' = FirstN(PassedGate(opt'.force), opt'.max_companies[1]) ]_vars

\* a run with max-companies 1 has selected B, the fresh A having been
\* dropped by the gate before the cap
C24_Witness ==
    /\ cmd = "worker" /\ pc = "w_selected" /\ opt.max_companies = Num(1) /\ ~opt.force
    /\ is_active["A"] /\ ~needs_update_today(db, "A", now)
    /\ companies_to_update = <<"B">>

\* a string of two parts that int() accepts, the hour in 0..23 and the
\* minute in 0..59
ValidHHMM(parts) ==
    /\ Len(parts) = 2
    /\ \A j \in 1 .. 2 : parts[j].numeric /\ parts[j].fits_int
    /\ parts[1].value >= 0 /\ parts[1].value < 24
    /\ parts[2].value >= 0 /\ parts[2].value < 60

\* C25: run_daily started with a target time that is no valid HH:MM has
\* reported the error and returned: it is not in the polling loop and has
\* triggered no collection, with run-once set or not.
C25_InvalidTargetIsReported ==
    (cmd = "run_daily" /\ ~ValidHHMM(opt.target_time_str))
        => pc = "returned" /\ triggers = <<>> /\ last_run = NULL

\* C25 without the report: run_daily started with a target time that is no
\* valid HH:MM never polls and never triggers a collection.
C25_InvalidTargetNeverCollects ==
    (cmd = "run_daily" /\ ~ValidHHMM(opt.target_time_str))
        => pc \in {"returned", "raised"} /\ triggers = <<>> /\ last_run = NULL

\* the rows a step adds to or takes from the table
ChangedRows == {r \in BagToSet(db) \cup BagToSet(db') : CopiesIn(r, db) # CopiesIn(r, db')}

\* every row a step takes from the table is replaced by a row of the same
\* company and date
NoRecordDeleted ==
    \A r \in ChangedRows :
        CopiesIn(r, db') < CopiesIn(r, db)
            => \E q \in ChangedRows : /\ q.company = r.company /\ q.date = r.date
                                      /\ CopiesIn(q, db') > CopiesIn(q, db)

\* the date of the record the run holds for the company it is at, as read
\* at its get_or_create; the current date while it holds none
RecordDate == IF metrics # NULL THEN metrics[1].date ELSE now

\* C26: a step of a run deletes no CompanyMetrics record, leaves the
\* SP500Company records as they are, and changes only records of the current
\* date and of a company the run selected.
C26_OnlyTodaysSelectedRecords ==
    [][ /\ is_active' = is_active
        /\ NoRecordDeleted
        /\ \A r \in ChangedRows : r.date = now /\ r.company \in Range(companies_to_update)
      ]_vars

\* C26 with the date the run read for the company: a step of a run deletes
\* no CompanyMetrics record, leaves the SP500Company records as they are,
\* and changes only the record of the company it is at, a selected one,
\* under the date it read when it obtained that record, which was the
\* current date then.
C26_OnlySelectedRecordsOfTheDateRead ==
    [][ /\ is_active' = is_active
        /\ NoRecordDeleted
        /\ \A r \in ChangedRows : r.date = RecordDate /\ r.company \in Range(companies_to_update)
        /\ (metrics = NULL /\ metrics' # NULL) => metrics'[1].date = now
        /\ (metrics # NULL /\ metrics' # NULL) => metrics'[1].date = metrics[1].date
      ]_vars

\* a run has saved the record of today for B while the table holds a record
\* of A of today and a record of B of an earlier day
C26_Witness ==
    /\ outcome = "saved" /\ Range(companies_to_update) = {"B"}
    /\ \E r \in RowsFor(db, "B", now) : r.last_updated = now /\ r.close_price # NULL
    /\ RowsFor(db, "A", now) # {}
    /\ \E r \in BagToSet(db) : r.company = "B" /\ r.date < now

\* the active companies that match the selection of the run being started
Matching ==
    {s \in Symbols : /\ is_active[s]
                     /\ (cmd' = "collect" /\ opt'.symbol \notin {NoSymbol, ""})
                            => s = opt'.symbol}

\* a run with a configured key is started and no active company matches, or
\* the run is not forced and every matching company is fresh
NothingToDo ==
    /\ HandleStep
    /\ key_configured(cmd', opt'.api_key)
    /\ \/ Matching = {}
       \/ ~opt'.force /\ \A s \in Matching : ~needs_update_today(db, s, now)

\* C27: a run started when no active company matches the selection, or when
\* every matching company is fresh and the run is not forced, ends at once
\* and normally: nothing selected, nothing processed, no remote call, no
\* record written.
C27_NothingToDoEndsRun ==
    [][ NothingToDo
          => /\ pc' = "done" /\ ~interrupted' /\ raised' = raised
             /\ companies_to_update' = <<>> /\ counts' = ZeroCounts
             /\ fetched' = <<>> /\ db' = db /\ txn' = NULL
      ]_vars

\* a non-forced collect run for all companies has ended without a call, both
\* companies being active and fresh
C27_Witness ==
    /\ cmd = "collect" /\ pc = "done" /\ opt.api_key = "key" /\ ~opt.force
    /\ opt.symbol = NoSymbol
    /\ fetched = <<>> /\ companies_to_update = <<>>
    /\ \A s \in Symbols : is_active[s] /\ ~needs_update_today(db, s, now)

\* C28: the exit status of a collect run in which at least one company was
\* updated differs from the exit status of a run in which none was.
C28_ExitStatusTellsSuccess ==
    (cmd = "collect" /\ pc = "done")
        => \A n \in 0 .. Len(SymbolOrder) :
              ((n >= 1) # (counts.processed >= 1))
                  => collect_exit_status(n) # collect_exit_status(counts.processed)

\* an operator interrupt has been delivered to the scheduler in its loop: it
\* reached the scheduler, or the collection it had triggered took it
InterruptDelivered ==
    /\ cmd = "run_daily"
    /\ interrupted \/ pc = "s_absorbed"

\* the interrupted collection left a record created and not saved
UnsavedRecord == cmd = "run_daily" /\ outcome = "unsaved"

\* C29: after an operator interrupt delivered while the scheduler is in its
\* polling loop, a triggered collection included, the scheduler has stopped
\* and polls no more, and no record is left created and unsaved.
C29_InterruptStopsScheduler ==
    InterruptDelivered => pc = "stopped" /\ ~UnsavedRecord

\* C29 outside a collection: an interrupt that arrives while the scheduler
\* polls or sleeps, or while run_collection is not at a company, stops the
\* scheduler, and no record is written.
C29_InterruptOutsideCompanyLoop ==
    interrupted => pc = "stopped" /\ db = InitialTable

\* the delay the run puts between requests, in ticks: --delay in the worker,
\* the sleep of one second in the collect command
MicroDelay == IF cmd = "worker" THEN delay ELSE CollectPause * Second

\* C30: any two consecutive remote calls of a run are at least the
\* micro-delay apart, the calls made for one company included.
C30_CallsAreDelayApart ==
    \A j \in 1 .. Len(calls) - 1 : calls[j + 1] - calls[j] >= MicroDelay

\* C30 between companies: the first call for a company comes at least the
\* micro-delay after the last call for the company before it, also when
\* that company failed.
C30_CompaniesAreDelayApart ==
    [][ (calls # <<>> /\ calls' # calls) => clock - calls[Len(calls)] >= MicroDelay ]_vars

\* the place of a company in the selection
Pos(seq, x) == CHOOSE n \in 1 .. Len(seq) : seq[n] = x

\* the elements of sub are distinct elements of seq, in the order of seq
InOrderOf(sub, seq) ==
    /\ \A a \in 1 .. Len(sub) : \E n \in 1 .. Len(seq) : seq[n] = sub[a]
    /\ \A a, b \in 1 .. Len(sub) : a < b => Pos(seq, sub[a]) < Pos(seq, sub[b])

\* the states of a run: Idle, Selecting (the selection is made, the loop not
\* entered), Fetching, RateLimiting, Completed, Aborted
Phase ==
    CASE pc = "idle" -> "Idle"
      [] pc \in {"w_selected", "c_selected"} -> "Selecting"
      [] pc = "w_ratelimit" -> "RateLimiting"
      [] pc = "done" -> "Completed"
      [] pc = "aborted" -> "Aborted"
      [] OTHER -> "Fetching"

\* the state a run may go to from a state
PhaseFollows(from, to) ==
    \/ to = from
    \/ from \in {"Idle", "Completed", "Aborted"} /\ to \in {"Selecting", "Completed"}
    \/ from = "Selecting" /\ to \in {"Fetching", "Aborted"}
    \/ from = "Fetching" /\ to \in {"RateLimiting", "Completed"}
    \/ from = "RateLimiting" /\ to \in {"Fetching", "Completed", "Aborted"}

\* the companies of a run are processed at most once and in selection order,
\* the selection of the worker is in ascending symbol order, and the batches
\* of the worker partition the selection
ProcessedInOrder ==
    /\ InOrderOf(fetched, companies_to_update)
    /\ cmd = "worker" => InOrderOf(companies_to_update, SymbolOrder)
    /\ (cmd = "worker" /\ ~Ended /\ pc # "w_selected")
          => /\ i % opt.batch_size = 0
             /\ i < Len(companies_to_update)
             /\ k < BatchLen
    /\ (cmd = "collect" /\ ~Ended /\ pc # "c_selected") => i < Len(companies_to_update)

\* a batch of the worker begins where the batch before it ended
BatchesFollow ==
    (cmd = "worker" /\ i' # i) => (i' = 0 \/ i' = i + opt.batch_size)

\* C31: a run goes from Idle through Selecting and Batching (Fetching and
\* RateLimiting repeated) to Completed or Aborted; it processes every
\* selected company at most once and in selection order, its batches
\* partition the selection; and every run that is started ends (at every
\* moment the run, if one is in progress, is in a final state later on).
C31_RunStatesAndTermination ==
    /\ [][PhaseFollows(Phase, Phase') /\ BatchesFollow]_vars
    /\ []ProcessedInOrder
    /\ []<>Ended

\* a worker run with batches of one has ended after two batches, both
\* companies processed in symbol order
C31_Witness ==
    /\ cmd = "worker" /\ pc = "done" /\ opt.batch_size = 1 /\ i = 1
    /\ companies_to_update = <<"A", "B">> /\ fetched = <<"A", "B">>

\* processed = successful + failed, and no more than the companies selected
CountsAddUp(c) ==
    /\ c.processed = c.successful + c.failed
    /\ c.processed <= Len(companies_to_update)

\* C32: in a worker run, whenever the loop is between two companies, and in
\* the final tally, processed = successful + failed and processed is at most
\* the number of selected companies, also after an exception or an interrupt
\* raised once the outcome of a company was counted.
C32_CountsAddUp ==
    cmd = "worker"
        => /\ pc \in {"w_company", "w_ratelimit", "done", "aborted"} => CountsAddUp(counts)
           /\ tally # NULL => CountsAddUp(tally[1])

\* C32 for runs in which nothing is raised after a count: the counts add up
\* between companies and in the tally; and in every run processed is at most
\* the number of selected companies and at most successful + failed.
C32_CountsAddUpUndisturbed ==
    cmd = "worker"
        => /\ counts.processed <= Len(companies_to_update)
           /\ counts.processed <= counts.successful + counts.failed
           /\ (raised = 0 /\ ~interrupted /\ pc \in {"w_company", "w_ratelimit", "done"})
                 => CountsAddUp(counts)

\* the step counts the company the worker is at as successful
CountedSuccessful ==
    cmd = "worker" /\ cmd' = "worker" /\ counts'.successful = counts.successful + 1

\* a company is counted successful at the commit of its transaction, the
\* record as merged then being in the table; a transaction that ends
\* without the count leaves the table as it was; the table changes at no
\* other step of a worker run
CountedExactlyWhenCommitted ==
    /\ CountedSuccessful
          => /\ pc = "w_save" /\ txn # NULL /\ txn' = NULL
             /\ CopiesIn([metrics[1] EXCEPT !.last_updated = now], db') = 1
    /\ (cmd = "worker" /\ ~CountedSuccessful) => db' = db

\* the committed table holds a record of the company for the date that is
\* updated on the date
UpdatedOn(table, company, d) ==
    \E r \in RowsFor(table, company, d) : r.last_updated = d

\* a company that is fresh stays fresh for the rest of the day, a non-forced
\* worker run does not select it, and no step of such a run calls the remote
\* for it or changes a record of it
FreshIsLeftAlone ==
    \A s \in Symbols :
        (~needs_update_today(db, s, now) /\ now' = now)
            => /\ ~needs_update_today(db', s, now)
               /\ (WorkerHandle /\ ~opt'.force) => \A n \in 1 .. Len(companies_to_update') :
                                                      companies_to_update'[n] # s
               /\ (cmd = "worker" /\ ~opt.force /\ ~HandleStep)
                     => /\ Len(fetched') > Len(fetched) => fetched'[Len(fetched')] # s
                        /\ \A r \in ChangedRows : r.company # s

CollectFetchFailed ==
    \/ CollectQuote /\ quote_data' = NULL
    \/ CollectFinancials /\ financials' = NULL

\* C34: when the quote request or the fundamentals request of the collect
\* command fails, fetch_company_data returns False with the store as it was
\* before the company, no record of it created or changed, and the company
\* is not counted as updated, at the failure or in the rest of its pass.
C34_FailedFetchWritesNothing ==
    [][ /\ CollectFetchFailed
           => /\ pc' = "c_delay" /\ metrics' = NULL
              /\ db' = db /\ db' = pre_db'
              /\ counts' = counts
        /\ (cmd = "collect" /\ pc = "c_delay" /\ (quote_data = NULL \/ financials = NULL))
           => (counts' = counts /\ db' = db)
      ]_vars

\* the fundamentals request for A has failed after its quote request
\* succeeded: A has no record for today and is not counted
C34_Witness ==
    /\ cmd = "collect" /\ pc = "c_delay" /\ CollectCompany = "A"
    /\ quote_data # NULL /\ financials = NULL
    /\ RowsFor(db, "A", now) = {} /\ db = pre_db
    /\ counts.processed = 0

\* the last collection the polling loop started has returned with an error
CollectionFailed ==
    /\ cmd = "run_daily" /\ ~opt.run_once
    /\ last_run # NULL /\ last_run[1].error

\* C35: when a collection started by the polling loop returns with an error
\* of the population or the collection command, the scheduler goes on to its
\* sleep with the day marked as run; the next collection it starts is on a
\* later day, a weekday, at or after the target time; and every weekday on
\* which a poll finds the time at or after the target time has its collection.
C35_ErrorKeepsSchedulerRunning ==
    /\ [][ /\ (SchedCollect /\ last_run'[1].error)
              => pc' = "s_sleep" /\ collection_run_today' /\ triggers' = triggers
           /\ (CollectionFailed /\ triggers' # triggers)
              => /\ triggers'[Len(triggers')].date > triggers[Len(triggers)].date
                 /\ weekday(triggers'[Len(triggers')].date) < 5
                 /\ triggers'[Len(triggers')].time >= opt.target_time[1]
         ]_vars
    /\ [](CollectionFailed
            => /\ pc = "stopped" => interrupted
               /\ \A d \in due : weekday(d) < 5 => \E n \in LoopTriggers : triggers[n].date = d)

\* the collection of a Friday returned with an error on that Friday, and on
\* the Monday after it the scheduler has started the next collection
C35_Witness ==
    /\ pc = "s_collect" /\ CollectionFailed
    /\ Len(triggers) = 2
    /\ weekday(triggers[1].date) = 4
    /\ last_run[1].ended = triggers[1].date
    /\ triggers[2].date = triggers[1].date + 3
    /\ triggers[2].date = now

\* run_daily was started with --run-once and a target time that is a valid HH:MM
RunOnce == cmd = "run_daily" /\ opt.run_once /\ ValidHHMM(opt.target_time_str)

\* C36: with run-once set and a valid target time, the start of run_daily
\* triggers the collection at once, at the date and time of the start,
\* whatever they are; from then on there is exactly that one collection, the
\* scheduler is in it or has returned after it, and it is never in the
\* polling loop.
C36_RunOnceCollectsOnceAtOnce ==
    /\ [][(SchedHandle /\ opt'.run_once /\ ValidHHMM(opt'.target_time_str))
            => /\ pc' = "s_once"
               /\ triggers' = <<[date |-> now, time |-> time_of_day, once |-> TRUE]>>]_vars
    /\ [](RunOnce => /\ pc \in {"s_once", "returned"}
                     /\ Len(triggers) = 1 /\ triggers[1].once
                     /\ (pc = "returned") <=> (last_run # NULL)
                     /\ last_run # NULL => last_run[1].ended >= triggers[1].date
                     /\ ~collection_run_today /\ due = {})

\* a run-once scheduler started on a Sunday, in a watch before the one of its
\* target time, has run its collection and returned
C36_Witness ==
    /\ RunOnce /\ pc = "returned"
    /\ Len(triggers) = 1
    /\ weekday(triggers[1].date) = 6
    /\ triggers[1].time < opt.target_time[1]
    /\ last_run # NULL

====
